---------------------------- MODULE Spec2Model ----------------------------
(* A model of ultk.language.grammar: Rule (from_callable),                *)
(* GrammaticalExpression (evaluate, to_dict, from_dict) and Grammar       *)
(* (add_rule, parse, generate, enumerate, enumerate_at_depth,             *)
(* get_unique_expressions, from_module).                                  *)
(*                                                                        *)
(* Strings are sequences of one-character strings, so that str() and the  *)
(* tokenizer of parse() work on characters.  A Python value that may be   *)
(* None is a pair of fields: x_none (it is None) and x (its value).       *)
EXTENDS Integers, Sequences, FiniteSets, TLC

(* ---------------------------------------------------------------------- *)
(* Bounds of the model                                                    *)
(* ---------------------------------------------------------------------- *)

\* the largest number of add_rule calls made on one Grammar
MaxRules == 3

\* the largest depth argument passed to enumerate / get_unique_expressions
MaxDepth == 3

\* the largest number of expressions a caller pulls from one enumerate call
MaxPulls == 8

\* the longest text given to parse that no expression printed
MaxText == 4

\* the deepest tree generate is followed to
MaxGenDepth == 2

(* ---------------------------------------------------------------------- *)
(* Small helpers on sequences                                             *)
(* ---------------------------------------------------------------------- *)

Range(s) == {s[i] : i \in DOMAIN s}

\* F(v), with v evaluated once whatever use F makes of it
Bind(v, F(_)) == CHOOSE r \in {F(x) : x \in {v}} : TRUE

RECURSIVE Concat(_)
\* the concatenation of a sequence of sequences
Concat(ss) ==
    IF ss = <<>> THEN <<>> ELSE Head(ss) \o Concat(Tail(ss))

RECURSIVE SumSeq(_)
SumSeq(s) ==
    IF s = <<>> THEN 0 ELSE Head(s) + SumSeq(Tail(s))

RECURSIVE MaxSeq(_)
\* max() of a non-empty sequence of integers
MaxSeq(s) ==
    IF Len(s) = 1 THEN s[1]
    ELSE LET m == MaxSeq(Tail(s)) IN IF s[1] >= m THEN s[1] ELSE m

RECURSIVE Product(_)
\* itertools.product(*pools): every choice of one element per pool, the
\* last pool varying fastest
Product(pools) ==
    IF pools = <<>> THEN << <<>> >>
    ELSE LET rest == Product(Tail(pools))
             first == Head(pools)
         IN  Concat([i \in DOMAIN first |->
                       [j \in DOMAIN rest |-> <<first[i]>> \o rest[j]]])

\* itertools.product(range(depth), repeat=k)
ProductRange(depth, k) ==
    Product([i \in 1..k |-> [j \in 1..depth |-> j - 1]])

(* ---------------------------------------------------------------------- *)
(* Rule                                                                   *)
(* ---------------------------------------------------------------------- *)

\* the type symbols used as lhs / rhs entries
Types == {"b", "i"}

\* Rule(name, lhs, rhs, func, weight); rhs_none: rhs is None
Rule(name, lhs, rhs_none, rhs, func, weight) ==
    [name |-> name, lhs |-> lhs, rhs_none |-> rhs_none, rhs |-> rhs,
     func |-> func, weight |-> weight]

is_terminal(rule) == rule.rhs_none

\* The rules a caller may register.  T, F: terminals of type b; n: negation;
\* a: conjunction; z: a rule with an empty (not None) rhs, as from_callable
\* builds for a function without parameters; p: b from i; F2: a terminal
\* of type i that has the name of F but another lhs and function; x: a
\* terminal of type i whose value is the referent.
R_T  == Rule(<<"T">>, "b", TRUE,  <<>>,         "true",  1)
R_F  == Rule(<<"F">>, "b", TRUE,  <<>>,         "false", 1)
R_n  == Rule(<<"n">>, "b", FALSE, <<"b">>,      "not",   1)
R_a  == Rule(<<"a">>, "b", FALSE, <<"b", "b">>, "and",   1)
R_z  == Rule(<<"z">>, "b", FALSE, <<>>,         "ztrue", 1)
R_p  == Rule(<<"p">>, "b", FALSE, <<"i">>,      "pos",   1)
R_x  == Rule(<<"x">>, "i", TRUE,  <<>>,         "id",    1)
R_F2 == Rule(<<"F">>, "i", TRUE,  <<>>,         "one",   1)

RulePool == {R_T, R_F, R_n, R_a, R_z, R_p, R_F2}

\* the value of rule function func on the argument values args; for a
\* terminal rule args is the referent the expression is called on
ApplyFunc(func, args) ==
    CASE func = "true"  -> 1
      [] func = "false" -> 0
      [] func = "not"   -> 1 - args[1]
      [] func = "and"   -> args[1] * args[2]
      [] func = "ztrue" -> 1
      [] func = "one"   -> 1
      [] func = "pos"   -> IF args[1] > 0 THEN 1 ELSE 0
      [] func = "id"    -> args[1]

(* ---------------------------------------------------------------------- *)
(* Rule.from_callable                                                     *)
(* ---------------------------------------------------------------------- *)

\* the number of parameters of the functions given to from_callable
MaxParams == 2

\* inspect.Signature.empty and inspect.Parameter.empty as an annotation:
\* no return annotation, no annotation
Empty == "empty"

\* inspect.Parameter.empty as a default: no default; a default d is <<d>>
NoDefault == <<>>

\* the annotation of a parameter that takes the referent itself
Referent == "Referent"

ParamNames == {"p", "q", "weight"}
Annotations == {Referent, Empty} \cup Types
Defaults == {NoDefault, <<2>>}
Parameters == [name : ParamNames, annotation : Annotations,
               default : Defaults]

\* the parameter lists Python accepts: no name twice, and no parameter
\* without default after one with a default
ParameterLists ==
    {ps \in UNION {[1..n -> Parameters] : n \in 0..MaxParams} :
        /\ \A i, j \in DOMAIN ps : ps[i].name = ps[j].name => i = j
        /\ \A i, j \in DOMAIN ps :
              (i < j /\ ps[i].default # NoDefault) =>
                  ps[j].default # NoDefault}

\* inspect.signature(func) of the functions given to from_callable, with
\* func.__name__
Callables ==
    [name : {<<"f">>}, return_annotation : {Empty} \cup Types,
     parameters : ParameterLists]

NoCallable == [name |-> <<>>, return_annotation |-> Empty, parameters |-> <<>>]

NotMade == [exc |-> "not called", rule |-> <<>>]

\* the parameters but the one named weight, in their order
WithoutWeight(parameters) ==
    SelectSeq(parameters, LAMBDA prm : prm.name # "weight")

\* `rhs and all(obj == Referent for obj in rhs)`
TerminalRhs(rhs) == rhs # <<>> /\ \A i \in DOMAIN rhs : rhs[i] = Referent

\* Rule.from_callable(func): the rule, or the exception raised.  The
\* function of the rule is func, which stands here under its name.
from_callable(func) ==
    LET weights == {i \in DOMAIN func.parameters :
                        func.parameters[i].name = "weight"}
        args == WithoutWeight(func.parameters)
        rhs == [i \in DOMAIN args |-> args[i].annotation]
    IN  IF func.return_annotation = Empty
        THEN [exc |-> "ValueError", rule |-> <<>>]
        ELSE IF \E i \in weights : func.parameters[i].default = NoDefault
        THEN [exc |-> "TypeError", rule |-> <<>>]
        ELSE [exc |-> "none",
              rule |-> Rule(func.name, func.return_annotation,
                            TerminalRhs(rhs),
                            IF TerminalRhs(rhs) THEN <<>> ELSE rhs,
                            func.name,
                            IF weights = {} THEN 1
                            ELSE func.parameters[CHOOSE i \in weights : TRUE]
                                     .default[1])]

(* ---------------------------------------------------------------------- *)
(* GrammaticalExpression                                                  *)
(* ---------------------------------------------------------------------- *)

RECURSIVE JoinStr(_)
\* ', '.join(strs)
JoinStr(strs) ==
    IF strs = <<>> THEN <<>>
    ELSE IF Len(strs) = 1 THEN strs[1]
    ELSE strs[1] \o <<",", " ">> \o JoinStr(Tail(strs))

RECURSIVE Str(_)
\* __str__: name for children None, name(child, ...) otherwise
Str(e) ==
    IF e.children_none THEN e.rule_name
    ELSE e.rule_name \o <<"(">>
         \o JoinStr([i \in DOMAIN e.children |-> Str(e.children[i])])
         \o <<")">>

\* the meaning an expression has before it is evaluated: the empty mapping
NoMeaning == <<>>

\* GrammaticalExpression(rule_name=, func=, children=): term_expression
\* is not given and __post_init__ sets it to str(self); the meaning is
\* the empty one
GrammaticalExpression(rule_name, func, children_none, children) ==
    [rule_name |-> rule_name, func |-> func,
     children_none |-> children_none, children |-> children,
     term_expression |-> Str([rule_name |-> rule_name,
                              children_none |-> children_none,
                              children |-> children]),
     meaning |-> NoMeaning]

\* __len__ as 1 plus the number of children of the root
ExprLen_RootAndChildren(e) ==
    1 + (IF e.children_none THEN 0 ELSE Len(e.children))

RECURSIVE ExprLen(_)
\* __len__: 1 plus the sizes of the children
ExprLen(e) ==
    1 + (IF e.children_none THEN 0
         ELSE SumSeq([i \in DOMAIN e.children |-> ExprLen(e.children[i])]))

RECURSIVE Call(_, _)
\* __call__: the value of the expression on a referent
Call(e, referent) ==
    IF e.children_none THEN ApplyFunc(e.func, <<referent>>)
    ELSE ApplyFunc(e.func,
                   [i \in DOMAIN e.children |-> Call(e.children[i], referent)])

\* the referents of the universes an expression is evaluated on: 0..this
MaxReferent == 1

\* universe.referents of the universes given to evaluate
Universes == SUBSET (0..MaxReferent)

\* `not self.meaning`: the meaning is the empty mapping
NotMeaning(meaning) == DOMAIN meaning = {}

\* evaluate(universe): the expression after the call; what the call
\* returns is its meaning
evaluate(e, universe) ==
    IF NotMeaning(e.meaning)
    THEN [e EXCEPT !.meaning = [referent \in universe |-> Call(e, referent)]]
    ELSE e

\* no evaluate call yet
NotEvaluated ==
    [called |-> FALSE, universe |-> {}, value |-> NoMeaning, calls |-> 0]

\* GrammaticalExpression(rule_name=, func=, children=, term_expression=,
\* meaning=): __post_init__ keeps a term_expression that is not empty
GrammaticalExpressionWith(rule_name, func, c_none, children, term, meaning) ==
    [GrammaticalExpression(rule_name, func, c_none, children)
        EXCEPT !.term_expression = IF term = <<>> THEN @ ELSE term,
               !.meaning = meaning]

RECURSIVE to_dict(_)
\* to_dict(): the entries of the base class, of which from_dict reads
\* "meaning"; term_expression, rule_name and length; "children" only `if
\* self.children` (has_children: the dict has the key)
to_dict(e) ==
    [meaning |-> e.meaning,
     term_expression |-> e.term_expression,
     rule_name |-> e.rule_name,
     length |-> ExprLen(e),
     has_children |-> (~e.children_none /\ e.children # <<>>),
     children |-> IF e.children_none THEN <<>>
                  ELSE [i \in DOMAIN e.children |-> to_dict(e.children[i])]]

\* no from_dict call yet
NotRebuilt == [kind |-> "none", of |-> <<>>, tree |-> <<>>]

RECURSIVE from_dict(_, _)
\* from_dict(the_dict, grammar): the tree, or <<>> when the name of some
\* node is not in _rules_by_name (KeyError); the_dict.get("children") is
\* None for a dict without the key
from_dict(the_dict, rbn) ==
    LET children == [i \in DOMAIN the_dict.children |->
                        from_dict(the_dict.children[i], rbn)]
    IN  IF the_dict.rule_name \notin DOMAIN rbn
           \/ \E i \in DOMAIN children : children[i] = <<>>
        THEN <<>>
        ELSE GrammaticalExpressionWith(
                the_dict.rule_name, rbn[the_dict.rule_name].func,
                ~the_dict.has_children, children,
                the_dict.term_expression, the_dict.meaning)

RECURSIVE TreeDepth(_)
\* the largest number of edges from the root to a leaf
TreeDepth(e) ==
    IF e.children_none \/ e.children = <<>> THEN 0
    ELSE 1 + MaxSeq([i \in DOMAIN e.children |-> TreeDepth(e.children[i])])

(* ---------------------------------------------------------------------- *)
(* Grammar: state                                                         *)
(* ---------------------------------------------------------------------- *)

VARIABLES
    rules,          \* _rules: defaultdict(list), a function on its keys
    rules_by_name,  \* _rules_by_name: dict name -> Rule
    start,          \* _start
    n_calls,        \* number of add_rule calls made so far
    raised,         \* the exception the last call raised, or "none"
    op,             \* the call in progress: "build", "enumerate", "gue", ...
    gen,            \* the generator object returned by enumerate
    cache,          \* the memo cache of that enumerate call
    unique_dict,    \* uniqueness_args["unique_expressions"]
    yielded,        \* history: what the caller has pulled from gen, in order,
                    \* each with the depth of the frame that yielded it
    minbuilt,       \* history: per <<lhs, key>>, the number n and the least
                    \* size min of the candidates built so far under a
                    \* uniqueness pass
    max_size,       \* get_unique_expressions: its max_size argument
    result,         \* get_unique_expressions: what it returned
    last_pull,      \* history: how the last next(gen) ended, with the
                    \* value it yielded, and the candidates it built
    computed,       \* history: per (depth, lhs), how often a frame of
                    \* enumerate_at_depth ran its loops in this call
    subject,        \* the expression generate returned, or the one whose
                    \* string parse is given
    text,           \* parse: its expression argument
    parsed,         \* parse: how it ended, and the tree it returned
    calls,          \* the enumerate calls made side by side on one grammar:
                    \* of each its generator, its memo cache, the store
                    \* its uniqueness_args point to and what was pulled
    stores,         \* the uniqueness stores the calls were given
    alone,          \* history: each of the calls run by itself on a copy
                    \* of the grammar, pulled as often as the call
    returned,       \* the last evaluate call on the subject: its universe,
                    \* what it returned and, as history, the number of
                    \* referents it called the expression on
    rebuilt,        \* from_dict(e.to_dict(), grammar): the expression e
                    \* and how the call ended
    callable,       \* Rule.from_callable: the signature of its argument
    made,           \* Rule.from_callable: the rule it returned, or the
                    \* exception it raised
    module,         \* Grammar.from_module: the module it was given
    asked,          \* history: the lhs of the generate call that was
                    \* followed into its recursion
    samples         \* history: the generate calls made in a sweep of the
                    \* cells of the draw, of each the lhs and the name of
                    \* the rule at the root of what it returned

gvars == <<rules, rules_by_name, start, n_calls, raised>>
hvars == <<last_pull, computed>>
evars == <<gen, cache, unique_dict, yielded, minbuilt, max_size, result,
          hvars>>
pvars == <<subject, text, parsed>>
cvars == <<calls, stores, alone>>
ovars == <<returned, rebuilt>>
fvars == <<callable, made, module>>
wvars == <<samples, asked>>
xvars == <<cvars, ovars, fvars, wvars>>
vars == <<gvars, op, evars, pvars, xvars>>

\* self._rules[lhs]: the list under lhs (empty when lhs is no key yet)
RulesOf(rs, lhs) == IF lhs \in DOMAIN rs THEN rs[lhs] ELSE <<>>

\* the keys of _rules after self._rules[lhs] was evaluated: a defaultdict
\* inserts the missing key
Touch(rs, lhs) == IF lhs \in DOMAIN rs THEN rs ELSE rs @@ (lhs :> <<>>)

\* Grammar.__init__(start)
GrammarInit ==
    /\ rules = <<>>
    /\ rules_by_name = <<>>
    /\ start = "b"
    /\ n_calls = 0
    /\ raised = "none"

\* the _rules table after add_rule(rule): the append comes first, so it
\* is made whether or not the name check that follows it raises
AddRuleRules(rs, rule) ==
    [k \in DOMAIN rs \cup {rule.lhs} |->
        IF k = rule.lhs THEN Append(RulesOf(rs, k), rule) ELSE rs[k]]

\* the _rules_by_name table after add_rule(rule)
AddRuleByName(rbn, rule) ==
    IF rule.name \in DOMAIN rbn THEN rbn
    ELSE [k \in DOMAIN rbn \cup {rule.name} |->
            IF k = rule.name THEN rule ELSE rbn[k]]

\* add_rule(rule): ValueError when the name is registered already
add_rule(rule) ==
    /\ op = "build"
    /\ n_calls < MaxRules
    /\ n_calls' = n_calls + 1
    /\ rules' = AddRuleRules(rules, rule)
    /\ rules_by_name' = AddRuleByName(rules_by_name, rule)
    /\ raised' = IF rule.name \in DOMAIN rules_by_name
                 THEN "ValueError" ELSE "none"
    /\ UNCHANGED <<start, op, evars, pvars, xvars>>


(* ---------------------------------------------------------------------- *)
(* Grammar.from_module                                                    *)
(* ---------------------------------------------------------------------- *)

\* the number of function definitions of the modules given to from_module
MaxFuncs == 2

\* the names of the functions of a module, in the order of sorted()
FuncNames == <<<<"a">>, <<"n">>, <<"z">>>>

\* the place of a name in the sorted names
NameRank(name) == CHOOSE i \in DOMAIN FuncNames : FuncNames[i] = name

\* the signatures of the functions of a module: with or without a return
\* annotation, without parameters, or with one that takes the referent or
\* an expression of type b
ModuleFuncs ==
    [name : Range(FuncNames), return_annotation : {Empty} \cup Types,
     parameters : {<<>>} \cup
                  {<<[name |-> "p", annotation |-> a, default |-> NoDefault]>> :
                      a \in {Referent, "b"}}]

\* a module: its function definitions in the order they are written in,
\* no name twice, and its binding of `start`, if it has one
Modules ==
    [functions : {fs \in UNION {[1..n -> ModuleFuncs] : n \in 0..MaxFuncs} :
                     \A i, j \in DOMAIN fs :
                         fs[i].name = fs[j].name => i = j},
     start : [defined : {FALSE}, value : {"b"}]
             \cup [defined : {TRUE}, value : Types]]

NoModule == [functions |-> <<>>, start |-> [defined |-> FALSE, value |-> "b"]]

\* the functions among inspect.getmembers(module): sorted by name
Members(functions) ==
    [k \in DOMAIN functions |->
        CHOOSE f \in Range(functions) :
            Cardinality({g \in Range(functions) :
                            NameRank(g.name) < NameRank(f.name)}) = k - 1]

RECURSIVE AddedRules(_, _)
\* _rules after add_rule of each of the rules, from the empty grammar
AddedRules(rs, k) ==
    IF k = 0 THEN <<>> ELSE AddRuleRules(AddedRules(rs, k - 1), rs[k])

RECURSIVE AddedByName(_, _)
\* _rules_by_name after add_rule of each of the rules
AddedByName(rs, k) ==
    IF k = 0 THEN <<>> ELSE AddRuleByName(AddedByName(rs, k - 1), rs[k])

\* Grammar.from_module(module_name): the grammar, or the exception raised
\* by from_callable, or by next() on the names of a grammar without rules
from_module(m) ==
    LET members == Members(m.functions)
        mades == [k \in DOMAIN members |-> from_callable(members[k])]
        bad == {k \in DOMAIN mades : mades[k].exc # "none"}
        rs == [k \in DOMAIN mades |-> mades[k].rule]
        rules_of == AddedRules(rs, Len(rs))
        by_name == AddedByName(rs, Len(rs))
        none == [exc |-> "none", rules |-> rules_of,
                 rules_by_name |-> by_name, start |-> "None"]
    IN  IF bad # {}
        THEN [exc |-> mades[CHOOSE k \in bad : \A j \in bad : k <= j].exc,
              rules |-> <<>>, rules_by_name |-> <<>>, start |-> "None"]
        ELSE IF m.start.defined /\ m.start.value \in DOMAIN rules_of
        THEN [none EXCEPT !.start = m.start.value]
        ELSE IF members = <<>>
        THEN [none EXCEPT !.exc = "StopIteration"]
        ELSE [none EXCEPT !.start = by_name[members[1].name].lhs]

(* ---------------------------------------------------------------------- *)
(* Uniqueness arguments                                                   *)
(* ---------------------------------------------------------------------- *)

\* the referents of the universe expressions are evaluated on
Universe == <<0, 1>>

\* the position of a rule name in a fixed list of the names
NameId(name) ==
    CHOOSE i \in 1..6 :
        <<"T", "F", "n", "a", "z", "p">>[i] = name[1]

\* The key functions a caller passes.  "meaning": the evaluation of the
\* expression on the universe (the key of the example scripts); "arg": the
\* rule name of the first child (0 without children).
KeyFuncs == {"meaning", "arg"}

Key(kf, e) ==
    CASE kf = "meaning" -> [r \in DOMAIN Universe |-> Call(e, Universe[r])]
      [] kf = "arg"     -> IF e.children_none \/ e.children = <<>> THEN <<0>>
                           ELSE <<NameId(e.children[1].rule_name)>>

\* The compare functions a caller passes, both strict.  "lt": the strictly
\* shorter expression wins (the one of the example scripts); "gt": the
\* strictly longer one wins.
CompareFuncs == {"lt", "gt"}

Compare(cf, e1, e2) ==
    CASE cf = "lt" -> ExprLen(e1) < ExprLen(e2)
      [] cf = "gt" -> ExprLen(e1) > ExprLen(e2)

\* uniqueness_args; on = FALSE stands for uniqueness_args=None
NoUniqueness == [on |-> FALSE, key |-> "meaning", cmp |-> "lt"]
UniquenessArgs == [on : {TRUE}, key : KeyFuncs, cmp : CompareFuncs]

(* ---------------------------------------------------------------------- *)
(* enumerate_at_depth: one generator frame                                *)
(* ---------------------------------------------------------------------- *)

\* What a frame works on: the memo cache, the uniqueness store, the _rules
\* table (reading a missing key inserts it) and the history of candidates;
\* gated is the history of the candidates built since next() was called,
\* each with the store and the cache before and after its gate; computed
\* is the history of how often the body of a frame (depth, lhs) went past
\* the cache test into its loops.
Env(c, ud, rs, mb) ==
    [cache |-> c, ud |-> ud, rules |-> rs, minbuilt |-> mb, gated |-> <<>>,
     computed |-> <<>>]

\* the history after the loops of a frame args_tuple were entered
NoteComputed(cp, args_tuple) ==
    IF args_tuple \in DOMAIN cp THEN [cp EXCEPT ![args_tuple] = @ + 1]
    ELSE cp @@ (args_tuple :> 1)

\* the history after candidate e of type lhs was built
NoteBuilt(mb, ua, lhs, e) ==
    LET k == <<lhs, Key(ua.key, e)>>
        n == ExprLen(e)
    IN  IF k \in DOMAIN mb
        THEN [mb EXCEPT ![k] = [n |-> @.n + 1,
                                min |-> IF n < @.min THEN n ELSE @.min]]
        ELSE mb @@ (k :> [n |-> 1, min |-> n])

\* unique_dict[lhs] of a defaultdict(dict): reading inserts the empty dict
TouchDict(ud, lhs) == IF lhs \in DOMAIN ud THEN ud ELSE ud @@ (lhs :> <<>>)

\* add_unique that keeps the first expression of a key whatever comes later
AddUniqueOk_FirstWins(ua, ud, lhs, e) ==
    Key(ua.key, e) \notin DOMAIN TouchDict(ud, lhs)[lhs]

\* add_unique that lets a candidate take the place of an entry it is not
\* worse than
AddUniqueOk_LastWins(ua, ud, lhs, e) ==
    LET d == TouchDict(ud, lhs)[lhs]
        k == Key(ua.key, e)
    IN  k \notin DOMAIN d \/ ~Compare(ua.cmp, d[k], e)

\* add_unique(expression), called in a frame of type lhs: the outcome
\* boolean and the store afterwards
AddUniqueOk(ua, ud, lhs, e) ==
    LET d == TouchDict(ud, lhs)[lhs]
        k == Key(ua.key, e)
    IN  k \notin DOMAIN d \/ Compare(ua.cmp, e, d[k])

AddUniqueStore(ua, ud, lhs, e) ==
    LET t == TouchDict(ud, lhs)
        k == Key(ua.key, e)
    IN  IF AddUniqueOk(ua, ud, lhs, e)
        THEN [t EXCEPT ![lhs] =
                [x \in DOMAIN t[lhs] \cup {k} |->
                    IF x = k THEN e ELSE t[lhs][x]]]
        ELSE t

\* cache[args_tuple].append(cur_expr) on a defaultdict(list)
CacheAppend(c, args_tuple, e) ==
    IF args_tuple \in DOMAIN c
    THEN [c EXCEPT ![args_tuple] = Append(@, e)]
    ELSE c @@ (args_tuple :> <<e>>)

\* `if not do_unique or add_unique(cur_expr)`: whether cur_expr is taken
Accepts(ua, ud, lhs, e) == (~ua.on) \/ AddUniqueOk(ua, ud, lhs, e)

\* a gate that appends to the cache also what add_unique turned away
Gate_CachesRejected(env, ua, depth, lhs, e) ==
    Bind([env EXCEPT
            !.ud = IF ua.on THEN AddUniqueStore(ua, env.ud, lhs, e) ELSE @,
            !.cache = CacheAppend(@, <<depth, lhs>>, e),
            !.minbuilt = IF ua.on THEN NoteBuilt(@, ua, lhs, e) ELSE @],
         LAMBDA after :
            [after EXCEPT
               !.gated = Append(@, [depth |-> depth, lhs |-> lhs,
                                    expr |-> e, out |-> "", level |-> 0,
                                    ud |-> env.ud, cache |-> env.cache,
                                    ud2 |-> after.ud,
                                    cache2 |-> after.cache])])

\* the environment after cur_expr was built in the frame (depth, lhs) and
\* passed through the gate
Gate(env, ua, depth, lhs, e) ==
    LET ok == Accepts(ua, env.ud, lhs, e)
    IN  Bind([env EXCEPT
                !.ud = IF ua.on THEN AddUniqueStore(ua, env.ud, lhs, e)
                       ELSE @,
                !.cache = IF ok THEN CacheAppend(@, <<depth, lhs>>, e)
                          ELSE @,
                !.minbuilt = IF ua.on THEN NoteBuilt(@, ua, lhs, e) ELSE @],
             LAMBDA after :
                [after EXCEPT
                   !.gated = Append(@, [depth |-> depth, lhs |-> lhs,
                                        expr |-> e, out |-> "", level |-> 0,
                                        ud |-> env.ud, cache |-> env.cache,
                                        ud2 |-> after.ud,
                                        cache2 |-> after.cache])])

\* the number of tuples of product(*pools)
RECURSIVE ProdLen(_)
ProdLen(pools) ==
    IF pools = <<>> THEN 1 ELSE Len(Head(pools)) * ProdLen(Tail(pools))

\* the k-th tuple (from 0) of product(*pools)
RECURSIVE NthCombo(_, _)
NthCombo(pools, k) ==
    IF pools = <<>> THEN <<>>
    ELSE LET rest == ProdLen(Tail(pools))
         IN  <<Head(pools)[(k \div rest) + 1]>>
             \o NthCombo(Tail(pools), k % rest)

\* `if max(child_depths) < depth - 1: continue`, without the variant below
SkipDepths_NeverSkip(child_depths, depth) == FALSE

\* `if max(child_depths) < depth - 1: continue`
SkipDepths(child_depths, depth) == MaxSeq(child_depths) < depth - 1

\* a generator enumerate_at_depth(depth, lhs, ...) whose body has not run
NewFrame(depth, lhs) ==
    [depth |-> depth, lhs |-> lhs, mode |-> "new", ridx |-> 1, ri |-> 1,
     cds |-> <<>>, pools |-> <<>>, ci |-> 0]

Out(f, env, st, val) == [f |-> f, env |-> env, st |-> st, val |-> val]

\* one step of the body of a frame enumerate_at_depth(depth, lhs, ...): to
\* the next turn of one of its loops ("cont"), to a yield ("yield", with
\* the value), to its end ("stop"), to an exception ("raise"), or to the
\* point where the next child generator of product(*[...]) is drained
\* ("call", with the frame of that child)
BodyStep(f, env, ua) ==
    LET args_tuple == <<f.depth, f.lhs>>
        rs == RulesOf(env.rules, f.lhs)
    IN
    CASE f.mode = "new" ->
            IF args_tuple \in DOMAIN env.cache
            THEN Out([f EXCEPT !.mode = "replay"], env, "cont", 0)
            ELSE Out([f EXCEPT !.mode = "rules"],
                     [env EXCEPT !.rules = Touch(@, f.lhs),
                                 !.computed = NoteComputed(@, args_tuple)],
                     "cont", 0)
      [] f.mode = "replay" ->
            \* yield from cache[args_tuple]
            IF f.ridx <= Len(env.cache[args_tuple])
            THEN LET e == env.cache[args_tuple][f.ridx]
                 IN  Out([f EXCEPT !.ridx = @ + 1], env, "yield", e)
            ELSE Out([f EXCEPT !.mode = "done"], env, "stop", 0)
      [] f.mode = "rules" ->
            \* for rule in self._rules[lhs]
            IF f.ri > Len(rs)
            THEN Out([f EXCEPT !.mode = "done"], env, "stop", 0)
            ELSE IF f.depth = 0
            THEN IF is_terminal(rs[f.ri])
                 THEN LET e == GrammaticalExpression(
                                   rs[f.ri].name, rs[f.ri].func, TRUE, <<>>)
                          g == [f EXCEPT !.ri = @ + 1]
                          env2 == Gate(env, ua, f.depth, f.lhs, e)
                      IN  IF Accepts(ua, env.ud, f.lhs, e)
                          THEN Out(g, env2, "yield", e)
                          ELSE Out(g, env2, "cont", 0)
                 ELSE Out([f EXCEPT !.ri = @ + 1], env, "cont", 0)
            ELSE IF rs[f.ri].rhs_none
                 THEN Out([f EXCEPT !.ri = @ + 1], env, "cont", 0)
                 ELSE Out([f EXCEPT !.mode = "depths",
                                    !.cds = ProductRange(f.depth,
                                                         Len(rs[f.ri].rhs))],
                          env, "cont", 0)
      [] f.mode = "depths" ->
            \* for child_depths in product(range(depth), repeat=len(rule.rhs))
            IF f.cds = <<>>
            THEN Out([f EXCEPT !.mode = "rules", !.ri = @ + 1], env, "cont", 0)
            ELSE IF Head(f.cds) = <<>>
            THEN \* max(()) raises ValueError
                 Out([f EXCEPT !.mode = "error"], env, "raise", 0)
            ELSE IF SkipDepths(Head(f.cds), f.depth)
            THEN Out([f EXCEPT !.cds = Tail(@)], env, "cont", 0)
            ELSE Out([f EXCEPT !.mode = "drain", !.pools = <<>>],
                     env, "cont", 0)
      [] f.mode = "drain" ->
            \* product(*[self.enumerate_at_depth(child_depth, child_lhs,
            \* ...) ...]): the child generators are drained one after the
            \* other, first to last; pools holds what they yielded
            LET i == Len(f.pools) + 1
            IN  IF i > Len(rs[f.ri].rhs)
                THEN Out([f EXCEPT !.mode = "combos", !.cds = Tail(@),
                                   !.ci = 0], env, "cont", 0)
                ELSE Out([f EXCEPT !.mode = "wait",
                                   !.pools = Append(@, <<>>)], env, "call",
                         NewFrame(Head(f.cds)[i], rs[f.ri].rhs[i]))
      [] f.mode = "combos" ->
            \* for children in children_iter
            IF f.ci >= ProdLen(f.pools)
            THEN Out([f EXCEPT !.mode = "depths", !.pools = <<>>, !.ci = 0],
                     env, "cont", 0)
            ELSE LET e == GrammaticalExpression(
                              rs[f.ri].name, rs[f.ri].func, FALSE,
                              NthCombo(f.pools, f.ci))
                     g == [f EXCEPT !.ci = @ + 1]
                     env2 == Gate(env, ua, f.depth, f.lhs, e)
                 IN  IF Accepts(ua, env.ud, f.lhs, e)
                     THEN Out(g, env2, "yield", e)
                     ELSE Out(g, env2, "cont", 0)
      [] OTHER -> Out(f, env, "stop", 0)

(* ---------------------------------------------------------------------- *)
(* enumerate: the generator a caller pulls from                           *)
(* ---------------------------------------------------------------------- *)

\* no generator yet
NoGen ==
    [depth |-> 0, lhs |-> "b", ua |-> NoUniqueness, num |-> 0,
     frame |-> NewFrame(0, "b"), mode |-> "none"]

\* the generator object enumerate(depth, lhs, uniqueness_args) returns;
\* lhs_none: lhs is None, and the start symbol is taken
NewGen(depth, lhs_none, lhs, ua) ==
    LET l == IF lhs_none THEN start ELSE lhs
    IN  [depth |-> depth, lhs |-> l, ua |-> ua, num |-> 0,
         frame |-> NewFrame(0, l), mode |-> "next"]

\* range(depth) of enumerate, with one depth too many
EnumRangeEnd_OneMore(depth) == depth + 1

\* the depths enumerate runs through, range(depth): the first not in it
EnumRangeEnd(depth) == depth

\* the generator g at work: the frames of enumerate_at_depth that have
\* started and not ended, the one enumerate pulls from first and the one
\* running last
Machine(g, env) ==
    [g |-> g, env |-> env, st |-> "cont", val |-> 0,
     stack |-> IF g.mode = "frame" THEN <<g.frame>> ELSE <<>>]

\* the environment s.env a step of the n-th frame leaves, the candidate
\* the step built marked in the history with how the step ended and the
\* number of frames running
Logged(before, s, n) ==
    IF Len(s.env.gated) = Len(before.gated) THEN s.env
    ELSE [s.env EXCEPT !.gated[Len(s.env.gated)] =
                          [@ EXCEPT !.out = s.st, !.level = n]]

\* one step of next(g):
\*   for num in range(depth): yield from self.enumerate_at_depth(num, ...)
\* with the body of the frame running last taking one step.  What a child
\* frame yields goes to the pool its parent collects; when it ends the
\* parent goes on; an exception ends every frame.
MachineStep(m) ==
    LET n == Len(m.stack)
        below == SubSeq(m.stack, 1, n - 1)
        After(s) ==
            CASE s.st = "cont" ->
                    [m EXCEPT !.stack[n] = s.f, !.env = Logged(m.env, s, n)]
              [] s.st = "call" ->
                    [m EXCEPT !.stack = Append(below, s.f) \o <<s.val>>,
                              !.env = Logged(m.env, s, n)]
              [] s.st = "yield" ->
                    IF n = 1
                    THEN [m EXCEPT !.stack[n] = s.f, !.env = Logged(m.env, s, n),
                                   !.st = "yield", !.val = s.val]
                    ELSE [m EXCEPT
                            !.stack = Append(
                               [below EXCEPT ![n - 1].pools =
                                  [@ EXCEPT ![Len(@)] = Append(@, s.val)]],
                               s.f),
                            !.env = Logged(m.env, s, n)]
              [] s.st = "stop" ->
                    IF n = 1
                    THEN [m EXCEPT !.stack = <<>>, !.env = Logged(m.env, s, n),
                                   !.g.mode = "next", !.g.num = @ + 1]
                    ELSE [m EXCEPT
                            !.stack = [below EXCEPT ![n - 1].mode = "drain"],
                            !.env = Logged(m.env, s, n)]
              [] OTHER ->
                    [m EXCEPT
                       !.stack = <<[(Append(below, s.f))[1] EXCEPT
                                      !.mode = "error", !.pools = <<>>]>>,
                       !.env = Logged(m.env, s, n), !.g.mode = "error", !.st = "raise"]
    IN  IF n = 0
        THEN IF m.g.mode # "next" THEN [m EXCEPT !.st = "stop"]
             ELSE IF m.g.num >= EnumRangeEnd(m.g.depth)
             THEN [m EXCEPT !.g.mode = "done", !.st = "stop"]
             ELSE [m EXCEPT !.g.mode = "frame",
                            !.stack = <<NewFrame(m.g.num, m.g.lhs)>>]
        ELSE Bind(BodyStep(m.stack[n], m.env, m.g.ua), After)

RECURSIVE RunK(_, _)
\* up to 2^k steps from m, stopping where next(g) returns or raises
RunK(m, k) ==
    IF m.st # "cont" THEN m
    ELSE IF k = 0 THEN MachineStep(m)
    ELSE Bind(RunK(m, k - 1),
              LAMBDA h : IF h.st # "cont" THEN h ELSE RunK(h, k - 1))

RECURSIVE Run(_, _)
\* the steps from m to the point where next(g) returns or raises, however
\* many they are: 2^k of them, then 2^(k+1), ...
Run(m, k) ==
    Bind(RunK(m, k), LAMBDA r : IF r.st # "cont" THEN r ELSE Run(r, k + 1))

\* next() on the generator of enumerate: runs to its next yield ("yield",
\* with the value), to its end ("stop") or to an exception ("raise")
StepEnum(g, env) ==
    Bind(Run(Machine(g, env), 3),
         LAMBDA r :
            Out([r.g EXCEPT !.frame = IF r.stack = <<>>
                                      THEN NewFrame(0, g.lhs)
                                      ELSE r.stack[1]],
                r.env, r.st, r.val))

\* no next(gen) yet
NotPulled == [st |-> "none", val |-> 0, gated |-> <<>>]

\* the generator can still be pulled from
Live(g) == g.mode \in {"next", "frame"}

\* the environment the generator of this state works on
CurEnv ==
    [Env(cache, unique_dict, rules, minbuilt) EXCEPT !.computed = computed]

\* g = self.enumerate(depth, lhs, uniqueness_args): a generator is made,
\* nothing of its body runs yet
Enumerate(depth, lhs_none, lhs, ua) ==
    /\ op = "build"
    /\ op' = "enumerate"
    /\ gen' = NewGen(depth, lhs_none, lhs, ua)
    /\ UNCHANGED <<gvars, cache, unique_dict, yielded, minbuilt,
                   max_size, result, hvars, pvars, xvars>>

\* what one next(gen) does to the state
PullEffect(s) ==
    /\ gen' = s.f
    /\ cache' = s.env.cache
    /\ unique_dict' = s.env.ud
    /\ rules' = s.env.rules
    /\ minbuilt' = s.env.minbuilt
    /\ yielded' = IF s.st = "yield"
                  THEN Append(yielded, [expr |-> s.val, depth |-> s.f.num])
                  ELSE yielded
    /\ raised' = IF s.st = "raise" THEN "ValueError" ELSE "none"
    /\ last_pull' = [st |-> s.st, val |-> s.val, gated |-> s.env.gated]
    /\ computed' = s.env.computed
    /\ UNCHANGED <<rules_by_name, start, n_calls>>

\* next(g) by the caller of enumerate
Pull ==
    /\ op = "enumerate"
    /\ Live(gen)
    /\ Len(yielded) < MaxPulls
    /\ \E s \in {StepEnum(gen, CurEnv)} : PullEffect(s)
    /\ UNCHANGED <<op, max_size, result, pvars, xvars>>

(* ---------------------------------------------------------------------- *)
(* get_unique_expressions                                                 *)
(* ---------------------------------------------------------------------- *)

\* max_size: inf = TRUE stands for float("inf")
Unbounded == [inf |-> TRUE, n |-> 0]
MaxSizes == {Unbounded} \cup [inf : {FALSE}, n : {1, 2}]

NoResult == [returned |-> FALSE, value |-> <<>>]

\* `if len(unique_dict) == max_size: break`
BreakNow(ud, ms) == (~ms.inf) /\ Cardinality(DOMAIN ud) = ms.n

\* get_unique_expressions(depth, unique_key, compare_func, lhs, max_size),
\* up to its loop: the store and the uniqueness arguments are made and
\* enumerate is called
get_unique_expressions(depth, kf, cf, lhs_none, lhs, ms) ==
    /\ op = "build"
    /\ op' = "gue"
    /\ gen' = NewGen(depth, lhs_none, lhs, [on |-> TRUE, key |-> kf, cmp |-> cf])
    /\ max_size' = ms
    /\ UNCHANGED <<gvars, cache, unique_dict, yielded, minbuilt, result,
                   hvars, pvars, xvars>>

\* one pass of `for _ in self.enumerate(...)`: the next expression is
\* pulled; at the end of the enumeration, or at the break, the function
\* returns unique_dict[lhs]
GueStep ==
    /\ op = "gue"
    /\ Live(gen)
    /\ Len(yielded) < MaxPulls
    /\ \E s \in {StepEnum(gen, CurEnv)} :
         \E leave \in {s.st = "stop"
                        \/ (s.st = "yield" /\ BreakNow(s.env.ud, max_size))} :
           \E t \in {[s EXCEPT !.env.ud =
                                  IF leave THEN TouchDict(@, gen.lhs) ELSE @,
                                !.f.mode =
                                  IF leave /\ s.st = "yield"
                                  THEN "closed" ELSE @]} :
              /\ PullEffect(t)
              /\ result' = IF leave
                           THEN [returned |-> TRUE,
                                 value |-> t.env.ud[gen.lhs]]
                           ELSE result
    /\ UNCHANGED <<op, max_size, pvars, xvars>>

(* ---------------------------------------------------------------------- *)
(* generate                                                               *)
(* ---------------------------------------------------------------------- *)

NoSubject == [none |-> TRUE, expr |-> <<>>]

\* how a generate call can end: the exception or "none", the expression
\* returned, and the keys of _rules it read
GenOut(exc, e, touched) == [raised |-> exc, expr |-> e, touched |-> touched]

\* list(accumulate(weights)) of random.choices, for the weights of rl
CumWeights(rl) == [i \in DOMAIN rl |-> SumSeq([j \in 1..i |-> rl[j].weight])]

\* cum_weights[-1], the total weight of a list that is not empty
TotalWeight(rl) == CumWeights(rl)[Len(rl)]

\* the values of random() * total, cut into unit cells: cell u holds the
\* values x with u <= x < u + 1, and every cell is equally likely
Cells(rl) == IF rl = <<>> THEN {} ELSE 0..(TotalWeight(rl) - 1)

\* bisect(cum_weights, x, 0, n - 1) for x in cell u: the first position
\* whose cumulative weight is more than x, at most the last one
Bisect(cum, u) ==
    LET above == {i \in DOMAIN cum : cum[i] > u}
    IN  IF above = {} THEN Len(cum)
        ELSE CHOOSE i \in above : \A j \in above : i <= j

\* random.choices(rules, weights, k=1)[0] when random() * total falls
\* into cell u
choices(rl, u) == rl[Bisect(CumWeights(rl), u)]

RECURSIVE GenerateOutcomes(_, _, _)
RECURSIVE GenerateDrawn(_, _, _, _)
RECURSIVE GenerateChildren(_, _, _)

\* generate(lhs) when the draw for its own rule falls into cell u,
\* followed to fuel nested calls; "unfinished": the call is still
\* recursing below that depth
GenerateDrawn(rs, lhs, fuel, u) ==
    LET the_rule == choices(RulesOf(rs, lhs), u)
    IN  IF the_rule.rhs_none
        THEN {GenOut("none",
                     GrammaticalExpression(the_rule.name, the_rule.func,
                                           TRUE, <<>>), {lhs})}
        ELSE IF the_rule.rhs # <<>> /\ fuel = 0
        THEN {GenOut("unfinished", <<>>, {lhs})}
        ELSE {GenOut(c.raised,
                     GrammaticalExpression(the_rule.name, the_rule.func,
                                           FALSE, c.expr),
                     c.touched \cup {lhs}) :
                c \in GenerateChildren(rs, the_rule.rhs, fuel - 1)}

\* generate(lhs), followed to fuel nested calls: random.choices
\* raises IndexError on an empty list of rules and ValueError when the
\* weights add up to nothing, and may draw from any cell otherwise
GenerateOutcomes(rs, lhs, fuel) ==
    LET rl == RulesOf(rs, lhs)
    IN  IF rl = <<>> THEN {GenOut("IndexError", <<>>, {lhs})}
        ELSE IF TotalWeight(rl) <= 0 THEN {GenOut("ValueError", <<>>, {lhs})}
        ELSE UNION {GenerateDrawn(rs, lhs, fuel, u) : u \in Cells(rl)}

\* [self.generate(child_lhs) for child_lhs in the_rule.rhs]: the children
\* in order; an exception in one ends the comprehension
GenerateChildren(rs, rhs, fuel) ==
    IF rhs = <<>> THEN {GenOut("none", <<>>, {})}
    ELSE LET hs == GenerateOutcomes(rs, Head(rhs), fuel)
             ts == GenerateChildren(rs, Tail(rhs), fuel)
         IN  {GenOut(h.raised, <<>>, h.touched) :
                 h \in {x \in hs : x.raised # "none"}}
             \cup
             {GenOut(t.raised,
                     IF t.raised = "none" THEN <<h.expr>> \o t.expr ELSE <<>>,
                     h.touched \cup t.touched) :
                 h \in {x \in hs : x.raised = "none"}, t \in ts}

\* the keys of _rules after the types in touched were read
TouchAll(rs, touched) ==
    [k \in DOMAIN rs \cup touched |-> RulesOf(rs, k)]

\* the calls that end within the depth followed
Finished(outs) == {out \in outs : out.raised # "unfinished"}

\* generate(lhs), where it ends within the depth followed
generate(lhs_none, lhs) ==
    /\ op = "build"
    /\ op' = "generate"
    /\ \E out \in Finished(GenerateOutcomes(rules,
                                            IF lhs_none THEN start ELSE lhs,
                                            MaxGenDepth)) :
          /\ rules' = TouchAll(rules, out.touched)
          /\ raised' = out.raised
          /\ subject' = [none |-> out.raised # "none",
                         expr |-> IF out.raised = "none" THEN out.expr
                                  ELSE <<>>]
    /\ UNCHANGED <<rules_by_name, start, n_calls, evars, text, parsed,
                   xvars>>

(* ---------------------------------------------------------------------- *)
(* parse                                                                  *)
(* ---------------------------------------------------------------------- *)

\* the default opener, closer and delimiter of parse
Opener == "("
Closer == ")"
Delimiter == ","

\* [^(),]: what name_pattern repeats
IsNameChar(c) == c \notin {Opener, Closer, Delimiter}

\* \s, and what str.strip removes
IsSpace(c) == c = " "

RECURSIVE NameEnd(_, _)
\* the index after the longest run of name characters from i
NameEnd(s, i) ==
    IF i <= Len(s) /\ IsNameChar(s[i]) THEN NameEnd(s, i + 1) ELSE i

RECURSIVE SpaceEnd(_, _)
\* the index after the longest run of white space from i
SpaceEnd(s, i) ==
    IF i <= Len(s) /\ IsSpace(s[i]) THEN SpaceEnd(s, i + 1) ELSE i

RECURSIVE Strip(_)
\* str.strip(): white space removed at both ends
Strip(s) ==
    IF s = <<>> THEN s
    ELSE IF IsSpace(s[1]) THEN Strip(Tail(s))
    ELSE IF IsSpace(s[Len(s)]) THEN Strip(SubSeq(s, 1, Len(s) - 1))
    ELSE s

RECURSIVE Tokens(_, _)
\* match.group().strip() for the matches of token_regex.finditer from i:
\* name+opener, else name, else delimiter+spaces, else closer; an opener
\* that follows no name matches nothing and is passed over
Tokens(s, i) ==
    IF i > Len(s) THEN <<>>
    ELSE IF IsNameChar(s[i]) THEN
        LET j == NameEnd(s, i)
        IN  IF j <= Len(s) /\ s[j] = Opener
            THEN <<Strip(SubSeq(s, i, j))>> \o Tokens(s, j + 1)
            ELSE <<Strip(SubSeq(s, i, j - 1))>> \o Tokens(s, j)
    ELSE IF s[i] = Delimiter THEN
        LET j == SpaceEnd(s, i + 1)
        IN  <<Strip(SubSeq(s, i, j - 1))>> \o Tokens(s, j)
    ELSE IF s[i] = Closer THEN <<<<Closer>>>> \o Tokens(s, i + 1)
    ELSE Tokens(s, i + 1)

\* add_child(child)
add_child(e, child) ==
    IF e.children_none
    THEN [e EXCEPT !.children_none = FALSE, !.children = <<child>>]
    ELSE [e EXCEPT !.children = Append(@, child)]

NotParsed == [kind |-> "none", tree |-> <<>>]

\* parse ended with this exception
ParseRaise(exc) == [kind |-> exc, tree |-> <<>>]

RECURSIVE ParseLoop(_, _, _, _)
\* the loop of parse from token k on, and the test after it
ParseLoop(rbn, toks, k, stack) ==
    IF k > Len(toks)
    THEN IF Len(stack) # 1 THEN ParseRaise("ValueError")
         ELSE [kind |-> "tree", tree |-> stack[1]]
    ELSE LET token == toks[k]
             name == SubSeq(token, 1, Len(token) - 1)
             rest == SubSeq(stack, 1, Len(stack) - 1)
         IN  IF token = <<>> THEN ParseRaise("IndexError")
             ELSE IF token[Len(token)] = Opener THEN
                 IF name \notin DOMAIN rbn THEN ParseRaise("KeyError")
                 ELSE ParseLoop(rbn, toks, k + 1,
                        Append(stack,
                               GrammaticalExpression(name, rbn[name].func,
                                                     FALSE, <<>>)))
             ELSE IF token = <<Delimiter>> \/ token = <<Closer>> THEN
                 IF stack = <<>> \/ rest = <<>> THEN ParseRaise("IndexError")
                 ELSE ParseLoop(rbn, toks, k + 1,
                        [rest EXCEPT ![Len(rest)] =
                            add_child(@, stack[Len(stack)])])
             ELSE
                 IF token \notin DOMAIN rbn THEN ParseRaise("KeyError")
                 ELSE ParseLoop(rbn, toks, k + 1,
                        Append(stack,
                               GrammaticalExpression(token, rbn[token].func,
                                                     TRUE, <<>>)))

\* parse(expression) with the default opener, closer and delimiter
parse(expression) ==
    /\ op' = "parse"
    /\ text' = expression
    /\ \E r \in {ParseLoop(rules_by_name, Tokens(expression, 1), 1, <<>>)} :
          /\ parsed' = r
          /\ raised' = IF r.kind = "tree" THEN "none" ELSE r.kind
    /\ UNCHANGED <<rules, rules_by_name, start, n_calls, evars, xvars>>

(* ---------------------------------------------------------------------- *)
(* Specification: a grammar is built, then one call runs on it            *)
(* ---------------------------------------------------------------------- *)

Init ==
    /\ GrammarInit
    /\ op = "build"
    /\ gen = NoGen
    /\ cache = <<>>
    /\ unique_dict = <<>>
    /\ yielded = <<>>
    /\ minbuilt = <<>>
    /\ max_size = Unbounded
    /\ result = NoResult
    /\ last_pull = NotPulled
    /\ computed = <<>>
    /\ subject = NoSubject
    /\ text = <<>>
    /\ parsed = NotParsed
    /\ calls = <<>>
    /\ stores = <<>>
    /\ alone = <<>>
    /\ returned = NotEvaluated
    /\ rebuilt = NotRebuilt
    /\ callable = NoCallable
    /\ made = NotMade
    /\ module = NoModule
    /\ samples = <<>>
    /\ asked = "b"

\* add_rule calls, in any order, also with a rule registered before
Build == \E rule \in RulePool : add_rule(rule)

\* an enumerate call on the grammar built so far, with or without a
\* uniqueness pass
StartEnumerate ==
    \E depth \in 0..MaxDepth, lhs \in Types,
       ua \in {NoUniqueness} \cup UniquenessArgs :
         Enumerate(depth, FALSE, lhs, ua)

\* a get_unique_expressions call on the grammar built so far, from the
\* start symbol
StartGue ==
    \E depth \in 0..MaxDepth, kf \in KeyFuncs, cf \in CompareFuncs,
       ms \in MaxSizes :
         get_unique_expressions(depth, kf, cf, TRUE, "b", ms)

Next ==
    \/ Build
    \/ StartEnumerate
    \/ Pull

\* a grammar is built, then enumerate is called and pulled from
Spec == Init /\ [][Next]_vars

NextBuild == Build

\* a grammar is built
SpecBuild == Init /\ [][NextBuild]_vars

NextGue ==
    \/ Build
    \/ StartGue
    \/ GueStep

\* a grammar is built, then get_unique_expressions runs on it
SpecGue == Init /\ [][NextGue]_vars

\* the characters of the texts given to parse
Alphabet == {"T", Opener, Closer, Delimiter, " "}

Texts == UNION {[1..n -> Alphabet] : n \in 0..MaxText}

\* a generate call on the grammar built so far
StartGenerate == \E lhs \in Types : generate(FALSE, lhs)

\* an enumerate call without a uniqueness pass
StartEnumeratePlain ==
    \E depth \in 0..MaxDepth, lhs \in Types :
        Enumerate(depth, FALSE, lhs, NoUniqueness)

\* parse of a text
ParseText ==
    /\ op = "build"
    /\ subject' = NoSubject
    /\ \E t \in Texts : parse(t)

\* parse(str(e)) of the expression e that generate returned
ParseGenerated ==
    /\ op = "generate"
    /\ ~subject.none
    /\ UNCHANGED subject
    /\ parse(Str(subject.expr))

\* parse(str(e)) of the expression e that enumerate yielded last
ParseYielded ==
    /\ op = "enumerate"
    /\ yielded # <<>>
    /\ subject' = [none |-> FALSE, expr |-> yielded[Len(yielded)].expr]
    /\ parse(Str(yielded[Len(yielded)].expr))

NextParse ==
    \/ Build
    \/ StartGenerate
    \/ StartEnumeratePlain
    \/ Pull
    \/ ParseText
    \/ ParseGenerated
    \/ ParseYielded

\* a grammar is built; an expression is generated or enumerated and its
\* string parsed, or a text is parsed
SpecParse == Init /\ [][NextParse]_vars

(* ---------------------------------------------------------------------- *)
(* Several enumerate calls on one grammar                                 *)
(* ---------------------------------------------------------------------- *)

\* the depths of the calls made side by side
MaxPairDepth == 2

\* the pulls from each of the calls made side by side
MaxPairPulls == 3

\* g = self.enumerate(depth, lhs, uniqueness_args) with
\* uniqueness_args["unique_expressions"] the store of this index: the
\* generator, the cache its body will make, and what was pulled from it
NewCall(depth, lhs, ua, store) ==
    [gen |-> NewGen(depth, FALSE, lhs, ua), cache |-> <<>>,
     store |-> store, yielded |-> <<>>]

\* the same call on a grammar and a store of its own
NewAlone(depth, lhs, ua) ==
    [gen |-> NewGen(depth, FALSE, lhs, ua), cache |-> <<>>,
     ud |-> <<>>, rules |-> rules, yielded |-> <<>>]

\* every call works on the cache of the first call
CallEnv_SharedCache(i) ==
    Env(calls[1].cache, stores[calls[i].store], rules, <<>>)

\* what call i works on: the cache made in its own enumerate body, the
\* store its uniqueness_args point to, and the grammar all calls share
CallEnv(i) ==
    Env(calls[i].cache, stores[calls[i].store], rules, <<>>)

\* what the call run by itself works on
AloneEnv(i) == Env(alone[i].cache, alone[i].ud, alone[i].rules, <<>>)

\* two calls of enumerate on the grammar built so far, each given a new
\* store; nothing of their bodies runs yet
EnumeratePair(d1, l1, u1, d2, l2, u2) ==
    /\ op = "build"
    /\ op' = "calls"
    /\ calls' = <<NewCall(d1, l1, u1, 1), NewCall(d2, l2, u2, 2)>>
    /\ stores' = <<<<>>, <<>>>>
    /\ alone' = <<NewAlone(d1, l1, u1), NewAlone(d2, l2, u2)>>
    /\ UNCHANGED <<gvars, evars, pvars, ovars, fvars, wvars>>

\* the record of a call after next(g) ended as s
Pulled(c, s) ==
    [c EXCEPT !.gen = s.f,
              !.cache = s.env.cache,
              !.yielded = IF s.st = "yield" THEN Append(@, s.val) ELSE @]

\* next(g) on the generator of call i; the call run by itself is pulled
\* from as well
PullCall(i) ==
    /\ op = "calls"
    /\ Live(calls[i].gen)
    /\ Len(calls[i].yielded) < MaxPairPulls
    /\ \E s \in {StepEnum(calls[i].gen, CallEnv(i))} :
          /\ calls' = [calls EXCEPT ![i] = Pulled(@, s)]
          /\ stores' = [stores EXCEPT ![calls[i].store] = s.env.ud]
          /\ rules' = s.env.rules
          /\ raised' = IF s.st = "raise" THEN "ValueError" ELSE "none"
    /\ alone' = IF Live(alone[i].gen)
                THEN [alone EXCEPT ![i] =
                        Bind(StepEnum(@.gen, AloneEnv(i)),
                             LAMBDA a : [Pulled(alone[i], a) EXCEPT
                                            !.ud = a.env.ud,
                                            !.rules = a.env.rules])]
                ELSE alone
    /\ UNCHANGED <<rules_by_name, start, n_calls, op, evars, pvars, ovars,
                   fvars, wvars>>

\* the uniqueness arguments of the calls made side by side: none, or the
\* evaluation as the key and "the shorter expression wins"
PairUniqueness ==
    {NoUniqueness, [on |-> TRUE, key |-> "meaning", cmp |-> "lt"]}

\* two calls with any arguments
StartPair ==
    \E d1, d2 \in 0..MaxPairDepth, l1, l2 \in Types,
       u1, u2 \in PairUniqueness :
         EnumeratePair(d1, l1, u1, d2, l2, u2)

\* a pull from either call
PullEither == \E i \in DOMAIN calls : PullCall(i)

\* the rules of the grammars the calls share: terminal rules of both
\* types, a rule whose rhs type may have no rule, a rule of empty rhs
PairPool == {R_T, R_n, R_p, R_F2, R_z}

\* add_rule calls with these rules
BuildPair == \E rule \in PairPool : add_rule(rule)

NextPair ==
    \/ BuildPair
    \/ StartPair
    \/ PullEither

\* a grammar is built, then two enumerate calls are made on it and pulled
\* from in any order
SpecPair == Init /\ [][NextPair]_vars

(* ---------------------------------------------------------------------- *)
(* An enumerate call is made again                                        *)
(* ---------------------------------------------------------------------- *)

\* g = self.enumerate(depth, lhs, uniqueness_args) on the grammar built so
\* far, with a new store
EnumerateFirst(depth, lhs, ua) ==
    /\ op = "build"
    /\ op' = "calls"
    /\ calls' = <<NewCall(depth, lhs, ua, 1)>>
    /\ stores' = <<<<>>>>
    /\ alone' = <<NewAlone(depth, lhs, ua)>>
    /\ UNCHANGED <<gvars, evars, pvars, ovars, fvars, wvars>>

\* the call is made a second time with the same depth, lhs, key and
\* compare functions, and with the store the first call was given (shared)
\* or a new one; the first generator is left as it is
EnumerateAgain(shared) ==
    /\ op = "calls"
    /\ Len(calls) = 1
    /\ \E g \in {calls[1].gen} :
          /\ calls' = Append(calls, NewCall(g.depth, g.lhs, g.ua,
                                            IF shared THEN 1 ELSE 2))
          /\ alone' = Append(alone, NewAlone(g.depth, g.lhs, g.ua))
    /\ stores' = IF shared THEN stores ELSE Append(stores, <<>>)
    /\ UNCHANGED <<gvars, op, evars, pvars, ovars, fvars, wvars>>

\* a first call with any arguments
StartFirst ==
    \E depth \in 0..MaxPairDepth, lhs \in Types, ua \in PairUniqueness :
        EnumerateFirst(depth, lhs, ua)

\* a pull from the first call, before the second is made
PullFirst == Len(calls) = 1 /\ PullCall(1)

\* the second call, at any point of the first
StartAgain == \E shared \in BOOLEAN : EnumerateAgain(shared)

\* a pull from the second call
PullSecond == Len(calls) = 2 /\ PullCall(2)

NextRestart ==
    \/ BuildPair
    \/ StartFirst
    \/ PullFirst
    \/ StartAgain
    \/ PullSecond

\* a grammar is built; enumerate is called and pulled from, to its end or
\* not; then it is called again with the same arguments and pulled from
SpecRestart == Init /\ [][NextRestart]_vars

(* ---------------------------------------------------------------------- *)
(* An expression is generated, then evaluated                             *)
(* ---------------------------------------------------------------------- *)

\* the rules of the grammars whose expressions are evaluated: the value
\* of x, and so of pos(x), depends on the referent
ExprPool == {R_T, R_n, R_p, R_x, R_z}

\* add_rule calls with these rules
BuildExpr == \E rule \in ExprPool : add_rule(rule)

\* e.evaluate(universe) on the expression e that generate returned
Evaluate ==
    /\ op \in {"generate", "evaluate"}
    /\ ~subject.none
    /\ op' = "evaluate"
    /\ \E universe \in Universes :
         \E e \in {evaluate(subject.expr, universe)} :
            /\ subject' = [subject EXCEPT !.expr = e]
            /\ returned' = [called |-> TRUE, universe |-> universe,
                            value |-> e.meaning,
                            calls |-> IF NotMeaning(subject.expr.meaning)
                                      THEN Cardinality(universe) ELSE 0]
    /\ UNCHANGED <<gvars, evars, text, parsed, cvars, rebuilt, fvars,
                   wvars>>

NextEval ==
    \/ BuildExpr
    \/ StartGenerate
    \/ Evaluate

\* a grammar is built, an expression is generated and evaluated on one
\* universe after the other
SpecEval == Init /\ [][NextEval]_vars

(* ---------------------------------------------------------------------- *)
(* An expression is written to a dict and read back                       *)
(* ---------------------------------------------------------------------- *)

\* the expressions at hand: the one generate returned (evaluated or not),
\* the one parse returned, the one enumerate yielded last
Produced ==
    (IF subject.none THEN {} ELSE {subject.expr})
    \cup (IF parsed.kind = "tree" THEN {parsed.tree} ELSE {})
    \cup (IF yielded = <<>> THEN {} ELSE {yielded[Len(yielded)].expr})

\* GrammaticalExpression.from_dict(e.to_dict(), grammar) for an expression
\* e at hand
Serialize ==
    /\ op \in {"generate", "evaluate", "parse", "enumerate"}
    /\ op' = "from_dict"
    /\ \E e \in Produced :
         \E t \in {from_dict(to_dict(e), rules_by_name)} :
            /\ rebuilt' = [kind |-> IF t = <<>> THEN "KeyError" ELSE "tree",
                           of |-> e, tree |-> t]
            /\ raised' = IF t = <<>> THEN "KeyError" ELSE "none"
    /\ UNCHANGED <<rules, rules_by_name, start, n_calls, evars, pvars,
                   cvars, returned, fvars, wvars>>

NextDict ==
    \/ BuildExpr
    \/ StartGenerate
    \/ Evaluate
    \/ StartEnumeratePlain
    \/ Pull
    \/ ParseText
    \/ Serialize

\* a grammar is built; an expression is generated and perhaps evaluated,
\* or enumerated, or parsed from a text, then written to a dict and read
\* back
SpecDict == Init /\ [][NextDict]_vars

(* ---------------------------------------------------------------------- *)
(* Rules are made from functions                                          *)
(* ---------------------------------------------------------------------- *)

\* Rule.from_callable(func) for a function of any signature
FromCallable ==
    /\ op = "build"
    /\ op' = "from_callable"
    /\ \E func \in Callables :
          /\ callable' = func
          /\ \E m \in {from_callable(func)} :
                /\ made' = m
                /\ raised' = m.exc
    /\ UNCHANGED <<rules, rules_by_name, start, n_calls, evars, pvars,
                   cvars, ovars, module, wvars>>

NextRule == FromCallable

\* a rule is made from a function
SpecRule == Init /\ [][NextRule]_vars

(* ---------------------------------------------------------------------- *)
(* A grammar is read from a module                                        *)
(* ---------------------------------------------------------------------- *)

\* Grammar.from_module(module_name) for any module
FromModule ==
    /\ op = "build"
    /\ n_calls = 0
    /\ op' = "from_module"
    /\ \E m \in Modules :
          /\ module' = m
          /\ \E g \in {from_module(m)} :
                /\ raised' = g.exc
                /\ rules' = g.rules
                /\ rules_by_name' = g.rules_by_name
                /\ start' = g.start
    /\ UNCHANGED <<n_calls, evars, pvars, cvars, ovars, callable, made,
                   wvars>>

NextModule == FromModule

\* a grammar is read from a module
SpecModule == Init /\ [][NextModule]_vars

(* ---------------------------------------------------------------------- *)
(* Two enumerate_at_depth generators on one cache object                  *)
(* ---------------------------------------------------------------------- *)

\* the generator object enumerate_at_depth(depth, lhs, None, cache)
\* returns: its frame is the outermost one, and next() on it ends when
\* the frame ends
AtDepthGen(depth, lhs) ==
    [depth |-> depth + 1, lhs |-> lhs, ua |-> NoUniqueness, num |-> depth,
     frame |-> NewFrame(depth, lhs), mode |-> "frame"]

\* g = self.enumerate_at_depth(depth, lhs, None, cache) with the cache
\* object of the caller; found: at the first next(g) the cache held a
\* list for (depth, lhs)
NewAtDepth(depth, lhs) ==
    [gen |-> AtDepthGen(depth, lhs), cache |-> <<>>, store |-> 1,
     yielded |-> <<>>, pulls |-> 0, found |-> FALSE]

\* the same call with a cache of its own
NewAtDepthAlone(depth, lhs) ==
    [gen |-> AtDepthGen(depth, lhs), cache |-> <<>>, ud |-> <<>>,
     rules |-> rules, yielded |-> <<>>]

\* each generator works on a cache of its own
SharedEnv_OwnCache(i) == Env(calls[i].cache, <<>>, rules, <<>>)

\* what generator i works on: the cache object both were given
SharedEnv(i) == Env(cache, <<>>, rules, <<>>)

\* cache = defaultdict(list); g1 = self.enumerate_at_depth(depth, lhs,
\* None, cache): nothing of the body runs yet
EnumerateAtDepthFirst(depth, lhs) ==
    /\ op = "build"
    /\ op' = "shared"
    /\ cache' = <<>>
    /\ calls' = <<NewAtDepth(depth, lhs)>>
    /\ alone' = <<NewAtDepthAlone(depth, lhs)>>
    /\ UNCHANGED <<gvars, gen, unique_dict, yielded, minbuilt, max_size,
                   result, hvars, pvars, stores, ovars, fvars, wvars>>

\* g2 = self.enumerate_at_depth(depth, lhs, None, cache) with the same
\* arguments and the same cache object
EnumerateAtDepthSecond ==
    /\ op = "shared"
    /\ Len(calls) = 1
    /\ \E f \in {calls[1].gen.frame} :
          /\ calls' = Append(calls, NewAtDepth(calls[1].gen.num, f.lhs))
          /\ alone' = Append(alone,
                             NewAtDepthAlone(calls[1].gen.num, f.lhs))
    /\ UNCHANGED <<gvars, op, evars, pvars, stores, ovars, fvars, wvars>>

\* next(g) on generator i; the same call with a cache of its own is
\* pulled from as well
PullAtDepth(i) ==
    /\ op = "shared"
    /\ Live(calls[i].gen)
    /\ Len(calls[i].yielded) < MaxPairPulls
    /\ \E s \in {StepEnum(calls[i].gen, SharedEnv(i))} :
          /\ calls' = [calls EXCEPT ![i] =
                         [Pulled(@, s) EXCEPT
                            !.pulls = @ + 1,
                            !.found =
                               IF calls[i].pulls = 0
                               THEN <<calls[i].gen.num, calls[i].gen.lhs>>
                                       \in DOMAIN cache
                               ELSE @]]
          /\ cache' = s.env.cache
          /\ rules' = s.env.rules
          /\ raised' = IF s.st = "raise" THEN "ValueError" ELSE "none"
    /\ alone' = IF Live(alone[i].gen)
                THEN [alone EXCEPT ![i] =
                        Bind(StepEnum(@.gen, AloneEnv(i)),
                             LAMBDA a : [Pulled(alone[i], a) EXCEPT
                                            !.rules = a.env.rules])]
                ELSE alone
    /\ UNCHANGED <<rules_by_name, start, n_calls, op, gen, unique_dict,
                   yielded, minbuilt, max_size, result, hvars, pvars, stores,
                   ovars, fvars, wvars>>

\* a first generator with any depth and lhs
StartAtDepth ==
    \E depth \in 0..MaxPairDepth, lhs \in Types :
        EnumerateAtDepthFirst(depth, lhs)

\* a pull from either generator
PullEitherAtDepth == \E i \in DOMAIN calls : PullAtDepth(i)

NextShared ==
    \/ BuildPair
    \/ StartAtDepth
    \/ EnumerateAtDepthSecond
    \/ PullEitherAtDepth

\* a grammar is built; two generators of enumerate_at_depth with the same
\* arguments are made on one cache object, the second at any point of
\* the first, and pulled from in any order
SpecShared == Init /\ [][NextShared]_vars

(* ---------------------------------------------------------------------- *)
(* Weighted generation: generate calls in a sweep of the draw             *)
(* ---------------------------------------------------------------------- *)

\* rules with weights of their own: T of weight 3, and a terminal z of
\* weight 0
W_T == Rule(<<"T">>, "b", TRUE, <<>>, "true", 3)
W_z == Rule(<<"z">>, "b", TRUE, <<>>, "ztrue", 0)

WeightedPool == {W_T, R_F, R_n, W_z}

BuildWeighted == \E rule \in WeightedPool : add_rule(rule)

\* generate(lhs), called once for each cell the draw of its own rule can
\* fall into, the cells taken in ascending order; the draws for the
\* children fall anywhere
Sample ==
    /\ op \in {"build", "generate"}
    /\ op' = "generate"
    /\ \E lhs \in Types :
          /\ IF samples = <<>> THEN TRUE ELSE samples[1].lhs = lhs
          /\ LET rl == RulesOf(rules, lhs)
                 u == Len(samples)
                 Returns(out) ==
                     /\ rules' = TouchAll(rules, out.touched)
                     /\ raised' = out.raised
                     /\ subject' = [none |-> out.raised # "none",
                                    expr |-> IF out.raised = "none"
                                             THEN out.expr ELSE <<>>]
             IN  IF u \in Cells(rl)
                 THEN \E out \in Finished(GenerateDrawn(rules, lhs,
                                                        MaxGenDepth, u)) :
                        /\ Returns(out)
                        /\ samples' =
                             Append(samples,
                                    [lhs |-> lhs,
                                     name |-> IF out.raised = "none"
                                              THEN out.expr.rule_name
                                              ELSE <<>>])
                 ELSE /\ samples = <<>>
                      /\ \E out \in Finished(GenerateOutcomes(
                                                  rules, lhs, MaxGenDepth)) :
                            /\ out.raised # "none"
                            /\ Returns(out)
                      /\ UNCHANGED samples
    /\ UNCHANGED <<rules_by_name, start, n_calls, evars, text, parsed,
                   cvars, ovars, fvars, asked>>

NextWeighted ==
    \/ BuildWeighted
    \/ Sample

\* a grammar of weighted rules is built, then generate is called once for
\* every cell of the draw
SpecWeighted == Init /\ [][NextWeighted]_vars

(* ---------------------------------------------------------------------- *)
(* generate, followed into its recursion                                  *)
(* ---------------------------------------------------------------------- *)

\* generate(lhs): it returns, raises, or is still recursing when
\* MaxGenDepth calls are nested (raised = "unfinished")
GenerateDeep ==
    /\ op = "build"
    /\ op' = "generate_deep"
    /\ \E lhs \in Types :
          /\ asked' = lhs
          /\ \E out \in GenerateOutcomes(rules, lhs, MaxGenDepth) :
                /\ rules' = TouchAll(rules, out.touched)
                /\ raised' = out.raised
                /\ subject' = [none |-> out.raised # "none",
                               expr |-> IF out.raised = "none" THEN out.expr
                                        ELSE <<>>]
    /\ UNCHANGED <<rules_by_name, start, n_calls, evars, text, parsed,
                   cvars, ovars, fvars, samples>>

NextRecursion ==
    \/ BuildPair
    \/ GenerateDeep

\* a grammar is built, then generate is called and followed to its
\* return, to an exception or into its recursion
SpecRecursion == Init /\ [][NextRecursion]_vars

(* ---------------------------------------------------------------------- *)
(* The trees of a grammar, defined without the enumeration                *)
(* ---------------------------------------------------------------------- *)

RECURSIVE TreesUpTo(_, _, _)
RECURSIVE ChildTuples(_, _, _)

\* The trees derivable from lhs with tree depth at most d: the root rule
\* is registered under lhs, child i is derived from the i-th rhs type, and
\* every leaf is a terminal rule.
TreesUpTo(rs, lhs, d) ==
    LET R == Range(RulesOf(rs, lhs))
    IN  {GrammaticalExpression(r.name, r.func, TRUE, <<>>) :
            r \in {x \in R : x.rhs_none}}
        \cup
        (IF d = 0 THEN {}
         ELSE UNION {
                {GrammaticalExpression(r.name, r.func, FALSE, ch) :
                    ch \in ChildTuples(rs, r.rhs, d - 1)} :
                r \in {x \in R : ~x.rhs_none /\ x.rhs # <<>>}})

\* the tuples of children for the rhs types rhs, each of depth at most d
ChildTuples(rs, rhs, d) ==
    IF rhs = <<>> THEN {<<>>}
    ELSE {<<h>> \o t : h \in TreesUpTo(rs, Head(rhs), d),
                       t \in ChildTuples(rs, Tail(rhs), d)}

\* the trees derivable from lhs with tree depth in 0..n-1
Derivable(rs, lhs, n) == IF n = 0 THEN {} ELSE TreesUpTo(rs, lhs, n - 1)

\* no add_rule call on this grammar has failed: the rule lists hold no
\* rule twice and every rule of a list is the rule of its name
NamesUnique ==
    /\ \A k \in DOMAIN rules : \A i, j \in DOMAIN rules[k] :
          rules[k][i].name = rules[k][j].name => i = j
    /\ \A k \in DOMAIN rules : \A i \in DOMAIN rules[k] :
          /\ rules[k][i].name \in DOMAIN rules_by_name
          /\ rules_by_name[rules[k][i].name] = rules[k][i]

\* some rule of the grammar has an empty rhs that is not None
HasEmptyRhs ==
    \E k \in DOMAIN rules : \E i \in DOMAIN rules[k] :
        ~rules[k][i].rhs_none /\ rules[k][i].rhs = <<>>

\* the expressions pulled so far
YieldedExprs == [i \in DOMAIN yielded |-> yielded[i].expr]

\* the enumerate call has ended: exhausted, or left by an exception
Ended == gen.mode \in {"done", "error"}

(* ---------------------------------------------------------------------- *)
(* Claims C1 - C3: enumerate without and with a uniqueness pass           *)
(* ---------------------------------------------------------------------- *)

\* C1: without uniqueness filtering, for every grammar (here: every
\* grammar whose registrations all succeeded), type lhs and depth n, once
\* enumerate(n, lhs) has ended it has yielded exactly the trees derivable
\* from lhs with depth in 0..n-1, each of them once.
C1_EnumerateExact ==
    (op = "enumerate" /\ ~gen.ua.on /\ NamesUnique /\ Ended) =>
        /\ Range(YieldedExprs) = Derivable(rules, gen.lhs, gen.depth)
        /\ Len(yielded) = Cardinality(Range(YieldedExprs))

\* C1 on the grammars it holds for: no rule has an empty rhs.  Not a
\* claim of its own; it shows what the failure of C1 rests on.
C1_ExactWithoutEmptyRhs ==
    (op = "enumerate" /\ ~gen.ua.on /\ NamesUnique /\ ~HasEmptyRhs) =>
        /\ gen.mode # "error"
        /\ Range(YieldedExprs) \subseteq Derivable(rules, gen.lhs, gen.depth)
        /\ Len(yielded) = Cardinality(Range(YieldedExprs))
        /\ gen.mode = "done" =>
              Range(YieldedExprs) = Derivable(rules, gen.lhs, gen.depth)

\* the example of C1: the grammar {T, F terminal; n(b) -> b}, in this
\* order, and enumerate(2, b) run to its end
C1_ExampleRun ==
    /\ op = "enumerate" /\ ~gen.ua.on /\ gen.mode = "done"
    /\ gen.depth = 2 /\ gen.lhs = "b"
    /\ DOMAIN rules = {"b"} /\ rules["b"] = <<R_T, R_F, R_n>>

\* the example of C1 yields exactly T, F, n(T), n(F)
C1_Example ==
    C1_ExampleRun =>
        LET T == GrammaticalExpression(<<"T">>, "true", TRUE, <<>>)
            F == GrammaticalExpression(<<"F">>, "false", TRUE, <<>>)
        IN  YieldedExprs =
              <<T, F, GrammaticalExpression(<<"n">>, "not", FALSE, <<T>>),
                GrammaticalExpression(<<"n">>, "not", FALSE, <<F>>)>>

\* C2: every expression yielded by enumerate_at_depth(d, lhs) has tree
\* depth exactly d.  A frame yields either an element of cache[(d, lhs)]
\* or an expression it has just appended to cache[(d, lhs)], so the cache
\* holds everything any frame has yielded; the expressions the caller
\* pulled are checked against the depth of the frame they came from.
C2_DepthExact ==
    /\ \A k \in DOMAIN cache : \A i \in DOMAIN cache[k] :
          TreeDepth(cache[k][i]) = k[1]
    /\ \A i \in DOMAIN yielded : TreeDepth(yielded[i].expr) = yielded[i].depth

\* C2 witness: under a uniqueness pass a frame of depth 2 has yielded, and
\* the memo cache holds lists of depths 0, 1 and 2
C2_Witness ==
    /\ gen.ua.on
    /\ \E i \in DOMAIN yielded : yielded[i].depth = 2
    /\ \A d \in 0..2 : <<d, "b">> \in DOMAIN cache

\* C3: enumerate(n, lhs) yields in ascending depth order, only depths
\* 0..n-1, and enumerate(0, lhs) yields nothing.
C3_AscendingDepth ==
    op = "enumerate" =>
        /\ \A i \in DOMAIN yielded : TreeDepth(yielded[i].expr) < gen.depth
        /\ \A i, j \in DOMAIN yielded :
              i < j => TreeDepth(yielded[i].expr) <= TreeDepth(yielded[j].expr)
        /\ gen.depth = 0 => yielded = <<>>

\* C3 witness: an enumerate(3, lhs) that ended after yielding at depths 0,
\* 1 and 2
C3_Witness ==
    /\ op = "enumerate" /\ gen.mode = "done" /\ gen.depth = 3
    /\ \A d \in 0..2 : \E i \in DOMAIN yielded : TreeDepth(yielded[i].expr) = d

(* ---------------------------------------------------------------------- *)
(* Claims C5 - C7: the uniqueness pass and get_unique_expressions         *)
(* ---------------------------------------------------------------------- *)

\* C5: under a uniqueness pass whose compare is "strictly smaller size
\* wins", the store holds one expression per (lhs, key) of the candidates
\* built, it has that key, and no candidate built with the same lhs and
\* key is strictly smaller than it; so it is at the end of a full run.
C5_StoredIsMinimalBuilt ==
    (op = "enumerate" /\ gen.ua.on /\ gen.ua.cmp = "lt") =>
        \A lk \in DOMAIN minbuilt :
            /\ lk[1] \in DOMAIN unique_dict
            /\ lk[2] \in DOMAIN unique_dict[lk[1]]
            /\ Key(gen.ua.key, unique_dict[lk[1]][lk[2]]) = lk[2]
            /\ ExprLen(unique_dict[lk[1]][lk[2]]) <= minbuilt[lk].min

\* C5 witness: a full run has ended in which a stored expression replaced
\* a longer one of its key: the store holds n(T) under a key for which
\* two candidates were built, and a(T, T) of that key is in the cache
C5_Witness ==
    /\ op = "enumerate" /\ gen.ua.on /\ gen.ua.cmp = "lt" /\ gen.mode = "done"
    /\ \E lk \in DOMAIN minbuilt :
          /\ minbuilt[lk].n >= 2
          /\ ExprLen(unique_dict[lk[1]][lk[2]]) = 2
          /\ \E c \in DOMAIN cache : \E i \in DOMAIN cache[c] :
                /\ Key(gen.ua.key, cache[c][i]) = lk[2]
                /\ ExprLen(cache[c][i]) = 3

\* get_unique_expressions has returned and no rule of the grammar is
\* registered twice or has an empty rhs
GueReturned ==
    op = "gue" /\ result.returned /\ NamesUnique /\ ~HasEmptyRhs

\* C6: for any key function and any strict compare function,
\* get_unique_expressions with max_size unbounded returns a mapping with an
\* entry for every key taken by an expression derivable from lhs at depth
\* 0..depth-1, and the value of a key is minimal under compare among all
\* the derivable expressions that share the key.
C6_MinimalAmongAllDerivable ==
    (GueReturned /\ max_size.inf) =>
        \A e \in Derivable(rules, gen.lhs, gen.depth) :
            /\ Key(gen.ua.key, e) \in DOMAIN result.value
            /\ ~Compare(gen.ua.cmp, e, result.value[Key(gen.ua.key, e)])

\* C6 for the key and compare of the example scripts (the evaluation as
\* the key, the shorter expression wins).  Not a claim of its own; it
\* shows that the failure of C6 rests on the key function.
C6_MinimalForMeaningKey ==
    (GueReturned /\ max_size.inf /\ gen.ua.key = "meaning"
        /\ gen.ua.cmp = "lt") =>
        \A e \in Derivable(rules, gen.lhs, gen.depth) :
            /\ Key(gen.ua.key, e) \in DOMAIN result.value
            /\ ~Compare(gen.ua.cmp, e, result.value[Key(gen.ua.key, e)])

\* C7: get_unique_expressions with a finite max_size returns a mapping of
\* at most max_size entries.
C7_AtMostMaxSize ==
    (GueReturned /\ ~max_size.inf) =>
        Cardinality(DOMAIN result.value) <= max_size.n

(* ---------------------------------------------------------------------- *)
(* Claim C8: add_rule                                                     *)
(* ---------------------------------------------------------------------- *)

\* C8: after any sequence of add_rule calls, failed ones included, no two
\* rules of the per-type lists share a name, and the lists and the
\* name-to-rule table hold exactly the same rules.
C8_NamesUnique ==
    /\ NamesUnique
    /\ \A nm \in DOMAIN rules_by_name :
          \E k \in DOMAIN rules : \E i \in DOMAIN rules[k] :
              rules[k][i] = rules_by_name[nm]

(* ---------------------------------------------------------------------- *)
(* Claims C4, C9, C10: parse                                              *)
(* ---------------------------------------------------------------------- *)

RECURSIVE SameNames(_, _)
\* two trees of one shape with the same rule name at every position
SameNames(t, e) ==
    /\ t.rule_name = e.rule_name
    /\ t.children_none = e.children_none
    /\ Len(t.children) = Len(e.children)
    /\ \A i \in DOMAIN t.children : SameNames(t.children[i], e.children[i])

RECURSIVE Resolved(_, _)
\* every node has the function the name table gives for its rule name
Resolved(rbn, t) ==
    /\ t.rule_name \in DOMAIN rbn
    /\ t.func = rbn[t.rule_name].func
    /\ \A i \in DOMAIN t.children : Resolved(rbn, t.children[i])

\* parse was given the string of an expression from generate or enumerate
ParsedStr == op = "parse" /\ ~subject.none

\* C4: for every expression e returned by generate or yielded by
\* enumerate, on any grammar, parse(str(e)) succeeds and returns a tree of
\* the shape of e with the same rule name at every position, each node
\* with the function the grammar has under that name.
C4_RoundTrip ==
    ParsedStr =>
        /\ parsed.kind = "tree"
        /\ SameNames(parsed.tree, subject.expr)
        /\ Resolved(rules_by_name, parsed.tree)

\* C4 on the grammars without a rule of empty rhs.  Not a claim of its
\* own; it shows that the failure of C4 rests on such rules.
C4_RoundTripWithoutEmptyRhs ==
    (ParsedStr /\ ~HasEmptyRhs) =>
        /\ parsed.kind = "tree"
        /\ SameNames(parsed.tree, subject.expr)
        /\ Resolved(rules_by_name, parsed.tree)

\* a round trip of a tree of depth 2 with a node of two children, once
\* from generate and once from enumerate
C4_DeepRoundTrip ==
    /\ ParsedStr /\ ~HasEmptyRhs
    /\ TreeDepth(subject.expr) = 2
    /\ \E i \in DOMAIN subject.expr.children :
          Len(subject.expr.children[i].children) = 2

\* C9: parse either returns one tree or fails with the ValueError of a
\* stack that does not reduce to one tree, whatever the text; it never
\* fails with a missing-key or an index error.
C9_OnlyParseError ==
    op = "parse" => parsed.kind \in {"tree", "ValueError"}

RECURSIVE WfExpr(_, _)
RECURSIVE WfArgs(_, _)

\* the index after a well-formed expression that starts at i, 0 when there
\* is none: a name, or a name, the opener, well-formed expressions
\* separated by the delimiter, and the closer.  White space around a name
\* is allowed, and so is an empty list of children.
WfExpr(s, i) ==
    LET j == NameEnd(s, i)
    IN  IF j = i \/ Strip(SubSeq(s, i, j - 1)) = <<>> THEN 0
        ELSE IF j <= Len(s) /\ s[j] = Opener
        THEN IF j + 1 <= Len(s) /\ s[j + 1] = Closer THEN j + 2
             ELSE WfArgs(s, j + 1)
        ELSE j

\* the index after the children that start at i and their closer
WfArgs(s, i) ==
    LET k == WfExpr(s, i)
    IN  IF k = 0 \/ k > Len(s) THEN 0
        ELSE IF s[k] = Closer THEN k + 1
        ELSE IF s[k] = Delimiter THEN WfArgs(s, k + 1)
        ELSE 0

WellFormed(s) == WfExpr(s, 1) = Len(s) + 1

\* C10: parse returns a tree only for a text in well-formed prefix
\* notation; a text with a stray opener, a closer in the place of a
\* delimiter or a delimiter in the place of a closer is never accepted as
\* some tree.
C10_RejectsMalformed ==
    (op = "parse" /\ parsed.kind = "tree") => WellFormed(text)

(* ---------------------------------------------------------------------- *)
(* Claim C11: the arity of the nodes                                      *)
(* ---------------------------------------------------------------------- *)

RECURSIVE ArityOk(_, _)
\* every node of t with at least one child has as many children as its
\* rule has rhs entries, and no node of a terminal rule has a child
ArityOk(rbn, t) ==
    /\ t.rule_name \in DOMAIN rbn
    /\ t.children # <<>> =>
          /\ ~is_terminal(rbn[t.rule_name])
          /\ Len(t.children) = Len(rbn[t.rule_name].rhs)
    /\ \A i \in DOMAIN t.children : ArityOk(rbn, t.children[i])

\* C11: on a grammar whose registrations all succeeded, every tree that
\* parse returned, generate returned or enumerate yielded has, at every
\* node with children, as many children as the rule of the node has rhs
\* entries, and no children at a node of a terminal rule.
C11_ArityInvariant ==
    NamesUnique =>
        /\ parsed.kind = "tree" => ArityOk(rules_by_name, parsed.tree)
        /\ ~subject.none => ArityOk(rules_by_name, subject.expr)
        /\ \A i \in DOMAIN yielded : ArityOk(rules_by_name, yielded[i].expr)

\* C11 for the trees of generate and enumerate alone.  Not a claim of its
\* own; it shows that the failure of C11 rests on parse.
C11_ArityOfGenerated ==
    NamesUnique =>
        /\ ~subject.none => ArityOk(rules_by_name, subject.expr)
        /\ \A i \in DOMAIN yielded : ArityOk(rules_by_name, yielded[i].expr)

(* ---------------------------------------------------------------------- *)
(* Claim C12: the grammar after its construction                          *)
(* ---------------------------------------------------------------------- *)

\* C12: once the grammar is built, no call on it (a step that is not an
\* add_rule call) changes the type-to-rules table, its set of keys
\* included, the name-to-rule table or the start symbol, whatever lhs the
\* call is given.
C12_ReadOnly ==
    [][op' # "build" => UNCHANGED <<rules, rules_by_name, start>>]_vars

\* C12 for the name-to-rule table and the start symbol alone.  Not a claim
\* of its own; it shows that the failure of C12 rests on the keys of the
\* type-to-rules table.
C12_NamesAndStartKept ==
    [][op' # "build" => UNCHANGED <<rules_by_name, start>>]_vars

\* C12 for the rule lists of the types that have one.  Not a claim of its
\* own: the calls add keys with an empty list and change nothing else.
C12_ListsKept ==
    [][op' # "build" =>
          /\ DOMAIN rules \subseteq DOMAIN rules'
          /\ \A k \in DOMAIN rules : rules'[k] = rules[k]
          /\ \A k \in DOMAIN rules' \ DOMAIN rules : rules'[k] = <<>>]_vars


(* ---------------------------------------------------------------------- *)
(* Claim C13: enumerate calls side by side                                *)
(* ---------------------------------------------------------------------- *)

\* the call has ended: exhausted, or left by an exception
CallEnded(c) == c.gen.mode \in {"done", "error"}

\* C13: of two enumerate calls on one grammar, each with its own cache and
\* its own store, pulled from in any order, each has yielded what the same
\* call yields in as many pulls when run alone, has ended when and as that
\* one has, and then its store holds what the store of that one holds.
C13_SameAsAlone ==
    op = "calls" =>
        \A i \in DOMAIN calls :
            /\ calls[i].yielded = alone[i].yielded
            /\ calls[i].gen.mode = alone[i].gen.mode
            /\ CallEnded(calls[i]) => stores[calls[i].store] = alone[i].ud

\* C13 witness: the first call has yielded and is suspended in a frame of
\* enumerate_at_depth, under a uniqueness pass that stored something; the
\* second call, from the same lhs, has yielded twice and ended; and the
\* grammar they share has a key that a read has added
C13_Witness ==
    /\ op = "calls"
    /\ calls[1].gen.mode = "frame" /\ calls[1].yielded # <<>>
    /\ calls[1].gen.ua.on /\ stores[calls[1].store] # <<>>
    /\ CallEnded(calls[2]) /\ Len(calls[2].yielded) >= 2
    /\ calls[2].gen.lhs = calls[1].gen.lhs
    /\ \E k \in DOMAIN rules : rules[k] = <<>>

(* ---------------------------------------------------------------------- *)
(* Claim C14: enumerate comes to its end                                  *)
(* ---------------------------------------------------------------------- *)

\* C14: for every grammar whose registrations all succeeded, rules of
\* empty rhs included, every lhs and every depth, no pull from enumerate(depth, lhs) ends with an exception.
\* (The claim says more, that the pulls reach exhaustion; this is the part
\* of it that a state can refute.)
C14_NeverRaises ==
    (op = "enumerate" /\ NamesUnique) => gen.mode # "error"

\* C14 on the grammars without a rule of empty rhs.  Not a claim of its
\* own; it shows what the failure of C14 rests on.
C14_NeverRaisesWithoutEmptyRhs ==
    (op = "enumerate" /\ ~HasEmptyRhs) => gen.mode # "error"

(* ---------------------------------------------------------------------- *)
(* Claim C15: evaluate                                                    *)
(* ---------------------------------------------------------------------- *)

\* C15: whatever evaluate calls were made on an expression before, what
\* evaluate(U) returns is the mapping with exactly the referents of U as
\* its keys that maps each referent x to the value of the expression on x.
C15_EvaluateOnGivenUniverse ==
    returned.called =>
        returned.value =
            [x \in returned.universe |-> Call(subject.expr, x)]

\* C15 for the first evaluate call on a universe that is not empty, and
\* for any call on the universe of that one.  Not a claim of its own; it
\* shows that the failure of C15 rests on the change of the universe.
C15_SameUniverse ==
    (returned.called /\ returned.universe = DOMAIN subject.expr.meaning) =>
        returned.value =
            [x \in returned.universe |-> Call(subject.expr, x)]

(* ---------------------------------------------------------------------- *)
(* Claim C16: to_dict and from_dict                                       *)
(* ---------------------------------------------------------------------- *)

RECURSIVE HasChildless(_)
\* some node of e has the empty tuple as its children
HasChildless(e) ==
    \/ ~e.children_none /\ e.children = <<>>
    \/ \E i \in DOMAIN e.children : HasChildless(e.children[i])

\* the tree read back has the rule names and the children structure of
\* the expression written (None or a tuple of the same length at every
\* node), its string and its meaning, and the functions of the grammar
SameAfterRoundTrip ==
    /\ rebuilt.kind = "tree"
    /\ SameNames(rebuilt.tree, rebuilt.of)
    /\ Str(rebuilt.tree) = Str(rebuilt.of)
    /\ rebuilt.tree.meaning = rebuilt.of.meaning
    /\ Resolved(rules_by_name, rebuilt.tree)

\* C16: for every expression e from parse, generate or enumerate,
\* evaluated or not, on a grammar whose registrations all succeeded,
\* from_dict(e.to_dict(), grammar) is a tree with the rule names, the
\* children structure, the string and the cached evaluation of e, with
\* every function taken from the grammar by rule name.
C16_DictRoundTrip ==
    (rebuilt.kind # "none" /\ NamesUnique) => SameAfterRoundTrip

\* C16 for the expressions without a node whose children are the empty
\* tuple.  Not a claim of its own; it shows what the failure of C16 rests
\* on.
C16_RoundTripWithChildren ==
    (rebuilt.kind # "none" /\ NamesUnique /\ ~HasChildless(rebuilt.of)) =>
        SameAfterRoundTrip

\* a round trip of an evaluated expression with children
C16_EvaluatedRoundTrip ==
    /\ rebuilt.kind = "tree" /\ NamesUnique
    /\ rebuilt.of.meaning # NoMeaning
    /\ rebuilt.of.children # <<>>

\* a round trip of an expression from generate with a node of a rule of
\* empty rhs, whose children are the empty tuple
C16_GeneratedChildless ==
    /\ rebuilt.kind = "tree" /\ NamesUnique
    /\ ~subject.none /\ rebuilt.of = subject.expr
    /\ HasChildless(rebuilt.of)
    /\ Len(rebuilt.of.children) = 1
    /\ ~SameAfterRoundTrip

(* ---------------------------------------------------------------------- *)
(* Claim C17: the size of an expression                                   *)
(* ---------------------------------------------------------------------- *)

RECURSIVE Positions(_)
\* the nodes of a tree, each as the path of child indexes from the root
Positions(e) ==
    {<<>>} \cup UNION {{<<i>> \o q : q \in Positions(e.children[i])} :
                          i \in DOMAIN e.children}

RECURSIVE SizeLawAt(_)
\* the size law at every node: 1 for a leaf, 1 plus the sizes of the
\* children otherwise
SizeLawAt(e) ==
    /\ e.children_none => ExprLen(e) = 1
    /\ ~e.children_none =>
          ExprLen(e) =
            1 + SumSeq([i \in DOMAIN e.children |-> ExprLen(e.children[i])])
    /\ \A i \in DOMAIN e.children : SizeLawAt(e.children[i])

\* C17: the size of every expression that enumerate_at_depth built obeys
\* the size law at every node, so it is the number of nodes of the tree;
\* and an expression that enumerate_at_depth(d, lhs) yielded has size at
\* least d + 1.  The cache holds what the frames yielded, under (d, lhs).
C17_SizeLaw ==
    /\ \A i \in DOMAIN yielded :
          /\ SizeLawAt(yielded[i].expr)
          /\ ExprLen(yielded[i].expr) = Cardinality(Positions(yielded[i].expr))
          /\ ExprLen(yielded[i].expr) >= yielded[i].depth + 1
    /\ \A k \in DOMAIN cache : \A i \in DOMAIN cache[k] :
          ExprLen(cache[k][i]) >= k[1] + 1

\* C17 witness: a leaf was yielded at depth 0, and at depth 2 an
\* expression of size 3 and one of a larger size
C17_Witness ==
    /\ \E i \in DOMAIN yielded :
          yielded[i].depth = 0 /\ ExprLen(yielded[i].expr) = 1
    /\ \E i, j \in DOMAIN yielded :
          /\ yielded[i].depth = 2 /\ ExprLen(yielded[i].expr) = 3
          /\ yielded[j].depth = 2 /\ ExprLen(yielded[j].expr) > 3

(* ---------------------------------------------------------------------- *)
(* Claim C18: Rule.from_callable                                          *)
(* ---------------------------------------------------------------------- *)

\* from_callable was given a function whose weight parameter, if it has
\* one, has a default
FromCallableCalled ==
    /\ op = "from_callable"
    /\ \A i \in DOMAIN callable.parameters :
          callable.parameters[i].name = "weight" =>
              callable.parameters[i].default # NoDefault

\* the annotations of the parameters of the function given that are not
\* named weight, in declaration order
Remaining ==
    LET idx == {i \in DOMAIN callable.parameters :
                    callable.parameters[i].name # "weight"}
        nth[k \in 0..Cardinality(idx)] ==
            IF k = 0 THEN 0
            ELSE CHOOSE i \in idx :
                    i > nth[k - 1] /\ \A j \in idx : j > nth[k - 1] => i <= j
    IN  [k \in 1..Cardinality(idx) |-> callable.parameters[nth[k]].annotation]

\* what C18 says of the rule made from a function with return annotation
MadeAsClaimed ==
    /\ made.exc = "none"
    /\ made.rule.lhs = callable.return_annotation
    /\ made.rule.weight =
          (IF \E i \in DOMAIN callable.parameters :
                  callable.parameters[i].name = "weight"
           THEN CHOOSE w \in 0..2 :
                  \E i \in DOMAIN callable.parameters :
                      /\ callable.parameters[i].name = "weight"
                      /\ callable.parameters[i].default = <<w>>
           ELSE 1)
    /\ IF \A k \in DOMAIN Remaining : Remaining[k] = Referent
       THEN is_terminal(made.rule)
       ELSE ~is_terminal(made.rule) /\ made.rule.rhs = Remaining

\* C18: from_callable rejects a function without return annotation with
\* the ValueError and makes no rule; else the rule has the return
\* annotation as lhs, the default of the parameter weight as weight (1.0
\* without such a parameter), and as rhs the annotations of the other
\* parameters in order, or the terminal marker when all of them, also
\* when there is none, are Referent.
C18_FromCallable ==
    FromCallableCalled =>
        IF callable.return_annotation = Empty
        THEN made.exc = "ValueError" /\ made.rule = <<>>
        ELSE MadeAsClaimed

\* C18 for the functions with a parameter that is not named weight.  Not
\* a claim of its own; it shows what the failure of C18 rests on.
C18_WithParameters ==
    (FromCallableCalled /\ Remaining # <<>>) =>
        IF callable.return_annotation = Empty
        THEN made.exc = "ValueError" /\ made.rule = <<>>
        ELSE MadeAsClaimed

(* ---------------------------------------------------------------------- *)
(* Claim C19: the start symbol of Grammar.from_module                     *)
(* ---------------------------------------------------------------------- *)

\* from_module returned a grammar for a module with a function definition
\* or a binding of start
FromModuleReturned ==
    /\ op = "from_module" /\ raised = "none"
    /\ module.functions # <<>> \/ module.start.defined

\* C19: the start symbol of the grammar from_module returns is what the
\* module binds start to when it binds it, and else the return annotation
\* of the function definition that comes first in the module.
C19_StartSymbol ==
    FromModuleReturned =>
        start = IF module.start.defined THEN module.start.value
                ELSE module.functions[1].return_annotation

\* C19 for the modules that bind start to the lhs of one of their rules,
\* or do not bind it and define their functions in the order of their
\* names.  Not a claim of its own; it shows what the failure of C19 rests
\* on.
C19_StartOfSortedModule ==
    (/\ FromModuleReturned
     /\ module.start.defined =>
            \E i \in DOMAIN module.functions :
                module.functions[i].return_annotation = module.start.value
     /\ ~module.start.defined =>
            Members(module.functions) = module.functions) =>
        start = IF module.start.defined THEN module.start.value
                ELSE module.functions[1].return_annotation

\* a module without a binding of start whose functions are not defined in
\* the order of their names: the start symbol is the lhs of the rule whose
\* name sorts first, not of the function defined first
C19_DeclaredLater ==
    /\ FromModuleReturned /\ ~module.start.defined
    /\ start # module.functions[1].return_annotation
    /\ start = Members(module.functions)[1].return_annotation

\* a module that binds start to a type none of its functions returns: the
\* binding is passed over
C19_StartPassedOver ==
    /\ FromModuleReturned /\ module.start.defined
    /\ start # module.start.value

(* ---------------------------------------------------------------------- *)
(* Claim C20: enumerate called again                                      *)
(* ---------------------------------------------------------------------- *)

\* the second call has yielded, as far as it was pulled from, what the
\* first call yielded, in the same order; a call that the other has
\* yielded more than has not come to its end
SameSequence ==
    /\ \A i \in DOMAIN calls[1].yielded \cap DOMAIN calls[2].yielded :
          calls[1].yielded[i] = calls[2].yielded[i]
    /\ \A i, j \in DOMAIN calls :
          Len(calls[i].yielded) < Len(calls[j].yielded) =>
              ~CallEnded(calls[i])

\* C20: a second enumerate call with the grammar, depth, lhs and
\* uniqueness arguments of a first one yields the same sequence in the
\* same order, whether the first call was pulled to its end or left
\* part-way, and whether or not the second call is given the store of the
\* first.
C20_Restartable ==
    (op = "calls" /\ Len(calls) = 2) => SameSequence

\* C20 for a second call that is given a new store or no store.  Not a
\* claim of its own; it shows that the failure of C20 rests on the shared
\* store.
C20_RestartableOwnStore ==
    (op = "calls" /\ Len(calls) = 2
        /\ (calls[2].store = 2 \/ ~calls[2].gen.ua.on)) =>
        /\ SameSequence
        /\ calls[2].yielded = alone[2].yielded

\* a second call with a store of its own has come to its end after
\* yielding, made when the first call was left part-way
C20_RestartedAfterAbandon ==
    /\ op = "calls" /\ Len(calls) = 2
    /\ calls[2].store = 2 /\ calls[2].gen.ua.on
    /\ calls[1].gen.mode = "frame" /\ calls[1].yielded # <<>>
    /\ CallEnded(calls[2]) /\ Len(calls[2].yielded) > Len(calls[1].yielded)

(* ---------------------------------------------------------------------- *)
(* C21: generate chooses a rule with probability proportional to weight   *)
(* ---------------------------------------------------------------------- *)

\* the rules registered under lhs: those the name table holds
Registered(lhs) ==
    {nm \in DOMAIN rules_by_name : rules_by_name[nm].lhs = lhs}

RECURSIVE SumWeights(_)
SumWeights(names) ==
    IF names = {} THEN 0
    ELSE LET nm == CHOOSE x \in names : TRUE
         IN  rules_by_name[nm].weight + SumWeights(names \ {nm})

\* the samples whose tree has the rule named nm at its root
SamplesOf(nm) == {u \in DOMAIN samples : samples[u].name = nm}

\* the sweep has taken every cell of the draw once
SweepDone ==
    /\ samples # <<>>
    /\ Len(samples) = TotalWeight(RulesOf(rules, samples[1].lhs))

\* C21: when generate(lhs) has been called once for every equally likely
\* cell of the draw, the share of the calls that chose a rule registered
\* under lhs is the share of its weight in the weights of the rules
\* registered under lhs; with two terminal rules of weights 3 and 1 the
\* leaves are in the ratio 3:1.
C21_ProportionalToWeight ==
    SweepDone =>
        \A nm \in Registered(samples[1].lhs) :
            Cardinality(SamplesOf(nm))
                * SumWeights(Registered(samples[1].lhs))
              = rules_by_name[nm].weight * Len(samples)

\* C21 on grammars on which no add_rule call has failed: the same shares
C21_ProportionalWhenNamesUnique ==
    (SweepDone /\ NamesUnique) =>
        \A nm \in Registered(samples[1].lhs) :
            Cardinality(SamplesOf(nm))
                * SumWeights(Registered(samples[1].lhs))
              = rules_by_name[nm].weight * Len(samples)

\* C21: the rules T of weight 3 and F of weight 1 are the rules of b, the
\* sweep is done and three of its four trees are T, one is F
C21_ThreeToOne ==
    /\ SweepDone
    /\ NamesUnique
    /\ samples[1].lhs = "b"
    /\ Range(rules["b"]) = {W_T, R_F}
    /\ Cardinality(SamplesOf(<<"T">>)) = 3
    /\ Cardinality(SamplesOf(<<"F">>)) = 1


(* ---------------------------------------------------------------------- *)
(* C22: the uniqueness gate                                               *)
(* ---------------------------------------------------------------------- *)

\* unique_dict[lhs] of the store ud, empty when lhs is no key of it
StoreOf(ud, lhs) == IF lhs \in DOMAIN ud THEN ud[lhs] ELSE <<>>

\* when the candidate of history entry g was built, the store had no
\* entry for its type and key, or the candidate compared as better
GateOpen(g) ==
    LET k == Key(gen.ua.key, g.expr)
        d == StoreOf(g.ud, g.lhs)
    IN  k \notin DOMAIN d \/ Compare(gen.ua.cmp, g.expr, d[k])

\* the gate of entry g took the candidate: it is the store entry of its
\* type and key, the other entries of the type are as before, and it is
\* the new last element of the cache list of its frame, the other lists
\* being as before
GateTook(g) ==
    LET k == Key(gen.ua.key, g.expr)
        d == StoreOf(g.ud, g.lhs)
        at == <<g.depth, g.lhs>>
    IN  /\ g.lhs \in DOMAIN g.ud2
        /\ DOMAIN g.ud2[g.lhs] = DOMAIN d \cup {k}
        /\ g.ud2[g.lhs][k] = g.expr
        /\ \A x \in DOMAIN d \ {k} : g.ud2[g.lhs][x] = d[x]
        /\ DOMAIN g.cache2 = DOMAIN g.cache \cup {at}
        /\ g.cache2[at] = Append(IF at \in DOMAIN g.cache THEN g.cache[at]
                                 ELSE <<>>, g.expr)
        /\ \A x \in DOMAIN g.cache \ {at} : g.cache2[x] = g.cache[x]

\* the gate of entry g left the store entries of the other types alone
OtherTypesKept(g) ==
    /\ DOMAIN g.ud2 \ {g.lhs} = DOMAIN g.ud \ {g.lhs}
    /\ \A l \in DOMAIN g.ud \ {g.lhs} : g.ud2[l] = g.ud[l]

\* C22: under a uniqueness pass, every candidate built during a next() on
\* the generator of enumerate is yielded by its frame if and only if, when
\* it was built, the store had no entry for its type and key or compare
\* put it before the entry; then it is the new store entry and the new
\* last element of the cache list of its frame; otherwise store and cache
\* are as before its gate; the store entries of other types are never
\* changed; and next() yields to the caller exactly when the frame that
\* enumerate runs yields, the candidate that frame built last.
C22_UniquenessGate ==
    (op \in {"enumerate", "gue"} /\ gen.ua.on) =>
        LET log == last_pull.gated
        IN  /\ \A i \in DOMAIN log :
                 /\ (log[i].out = "yield") <=> GateOpen(log[i])
                 /\ GateOpen(log[i]) => GateTook(log[i])
                 /\ ~GateOpen(log[i]) =>
                       (log[i].ud2 = log[i].ud /\ log[i].cache2 = log[i].cache)
                 /\ OtherTypesKept(log[i])
                 /\ (log[i].level = 1 /\ log[i].out = "yield") =>
                       (i = Len(log) /\ last_pull.st = "yield"
                          /\ last_pull.val = log[i].expr)
            /\ last_pull.st = "yield" =>
                  /\ log # <<>>
                  /\ log[Len(log)].level = 1
                  /\ log[Len(log)].out = "yield"
                  /\ last_pull.val = log[Len(log)].expr

\* C22 witness: one next() built a candidate that was turned away for the
\* store entry of its key and a candidate that took the place of the store
\* entry of its key
C22_Witness ==
    /\ op = "enumerate"
    /\ gen.ua.on
    /\ \E i, j \in DOMAIN last_pull.gated :
          LET g == last_pull.gated[i]
              h == last_pull.gated[j]
          IN  /\ ~GateOpen(g)
              /\ GateOpen(h)
              /\ Key(gen.ua.key, h.expr) \in DOMAIN StoreOf(h.ud, h.lhs)

\* C22: one next() built a candidate that was turned away and, in a child
\* frame, a candidate whose key the store held under another type
C22_ChildFrameAndOtherType ==
    /\ op = "enumerate"
    /\ gen.ua.on
    /\ \E i, j \in DOMAIN last_pull.gated :
          LET g == last_pull.gated[i]
              h == last_pull.gated[j]
          IN  /\ ~GateOpen(g)
              /\ h.level > 1
              /\ \E l \in DOMAIN h.ud \ {h.lhs} :
                    Key(gen.ua.key, h.expr) \in DOMAIN h.ud[l]


(* ---------------------------------------------------------------------- *)
(* C23: the stream of a uniqueness pass is canonical                      *)
(* ---------------------------------------------------------------------- *)

\* no two of the expressions pulled so far have the same key
OnePerKey ==
    \A i, j \in DOMAIN yielded :
        Key(gen.ua.key, yielded[i].expr) = Key(gen.ua.key, yielded[j].expr)
            => i = j

\* every expression of the memo cache is the store entry of its type and
\* key
CacheIsStored ==
    \A at \in DOMAIN cache : \A i \in DOMAIN cache[at] :
        LET e == cache[at][i]
            d == StoreOf(unique_dict, at[2])
        IN  /\ Key(gen.ua.key, e) \in DOMAIN d
            /\ d[Key(gen.ua.key, e)] = e

\* C23: under a uniqueness pass enumerate yields at most one expression
\* per key, and when the run has ended every expression in the memo cache
\* is the expression stored for its type and key.
C23_CanonicalStream ==
    (op = "enumerate" /\ gen.ua.on) =>
        /\ OnePerKey
        /\ gen.mode = "done" => CacheIsStored

\* C23 with the key and the compare function of the example scripts (the
\* meaning as key, the strictly shorter expression wins), on the rules
\* and depths of this specification
C23_CanonicalForMeaningKey ==
    (op = "enumerate" /\ gen.ua.on /\ gen.ua.key = "meaning"
        /\ gen.ua.cmp = "lt") =>
        /\ OnePerKey
        /\ gen.mode = "done" => CacheIsStored

\* C23: a run with the shorter expression winning has ended, and its
\* cache holds an expression that is not the store entry of its key
C23_SupersededStaysCached ==
    /\ op = "enumerate"
    /\ gen.ua.on
    /\ gen.ua.cmp = "lt"
    /\ gen.mode = "done"
    /\ ~CacheIsStored


(* ---------------------------------------------------------------------- *)
(* C24: a subproblem (depth, lhs) is computed once per enumerate call     *)
(* ---------------------------------------------------------------------- *)

\* C24: within one enumerate call, the loops of enumerate_at_depth run at
\* most once for every (depth, lhs), whether or not they yield anything;
\* every other request is answered from the cache.
C24_ComputedOnce ==
    op = "enumerate" => \A at \in DOMAIN computed : computed[at] <= 1

\* C24 for the subproblems that yielded something: their loops ran once
C24_OnceWhenNotEmpty ==
    op = "enumerate" =>
        \A at \in DOMAIN computed \cap DOMAIN cache : computed[at] = 1

\* C24: without a uniqueness pass, a subproblem that yielded something
\* was asked for again by another parent rule
C24_AnsweredFromCache ==
    /\ op = "enumerate"
    /\ ~gen.ua.on
    /\ gen.mode = "done"
    /\ gen.depth = 3
    /\ \E at \in DOMAIN cache : at[1] = 0 /\ computed[at] = 1
    /\ Cardinality({r \in Range(RulesOf(rules, gen.lhs)) : ~r.rhs_none}) = 2

\* C24: under a uniqueness pass the loops of a subproblem ran a second
\* time, and its candidates were built and sent through the gate again
C24_RebuiltAndGatedAgain ==
    /\ op = "enumerate"
    /\ gen.ua.on
    /\ \E i \in DOMAIN last_pull.gated :
          LET g == last_pull.gated[i]
          IN  /\ computed[<<g.depth, g.lhs>>] >= 2
              /\ <<g.depth, g.lhs>> \notin DOMAIN cache
              /\ <<g.lhs, Key(gen.ua.key, g.expr)>> \in DOMAIN minbuilt
              /\ minbuilt[<<g.lhs, Key(gen.ua.key, g.expr)>>].n >= 3


(* ---------------------------------------------------------------------- *)
(* C25: one cache object under two generators of enumerate_at_depth       *)
(* ---------------------------------------------------------------------- *)

RECURSIVE Drained(_, _, _)
\* the number of expressions a generator has yielded when it is pulled
\* from until it ends, n of them yielded already
Drained(g, env, n) ==
    IF ~Live(g) THEN n
    ELSE Bind(StepEnum(g, env),
              LAMBDA s : Drained(s.f, s.env,
                                 IF s.st = "yield" THEN n + 1 ELSE n))

\* the number of expressions generator i yields when run with a cache of
\* its own
YieldsAlone(i) == Drained(alone[i].gen, AloneEnv(i), Len(alone[i].yielded))

\* sequence s begins with sequence t
BeginsWith(s, t) == Len(t) <= Len(s) /\ SubSeq(s, 1, Len(t)) = t

\* C25: a generator of enumerate_at_depth(d, lhs) whose first next() finds
\* in the shared cache a list for (d, lhs), part of the result of the other
\* generator, yields only what the other has yielded so far; and when it is
\* exhausted while the other has not yielded all of the result yet, it has
\* yielded fewer expressions than it yields when run alone.
C25_SharedCacheUnsafe ==
    op = "shared" =>
        \A i \in DOMAIN calls :
            calls[i].found =>
                /\ Len(calls) = 2
                /\ BeginsWith(calls[3 - i].yielded, calls[i].yielded)
                /\ (calls[i].gen.mode = "done"
                      /\ Len(calls[3 - i].yielded) < YieldsAlone(3 - i))
                    => Len(calls[i].yielded) < YieldsAlone(i)

\* C25 witness: the second generator was started when the first had
\* cached part of its result; it is exhausted while the first can still
\* be pulled from, and it has yielded fewer expressions than alone
C25_Witness ==
    /\ op = "shared"
    /\ Len(calls) = 2
    /\ calls[2].found
    /\ calls[2].gen.mode = "done"
    /\ Live(calls[1].gen)
    /\ calls[1].gen.num >= 1
    /\ Len(calls[2].yielded) < YieldsAlone(2)
    /\ Len(calls[1].yielded) < YieldsAlone(1)


(* ---------------------------------------------------------------------- *)
(* C26: the meaning of an expression is computed once                     *)
(* ---------------------------------------------------------------------- *)

\* C26: an evaluate call on an expression that was evaluated before
\* returns the stored mapping, leaves it in place and calls the
\* expression on no referent, whatever the universe of the first call.
C26_EvaluatedOnce ==
    [][(returned.called /\ op' = "evaluate") =>
          /\ returned'.value = subject.expr.meaning
          /\ subject'.expr.meaning = subject.expr.meaning
          /\ returned'.calls = 0]_vars

\* C26 after a first call on a universe that is not empty
C26_OnceWhenNotEmpty ==
    [][(returned.called /\ ~NotMeaning(subject.expr.meaning)
          /\ op' = "evaluate") =>
          /\ returned'.value = subject.expr.meaning
          /\ subject'.expr.meaning = subject.expr.meaning
          /\ returned'.calls = 0]_vars

\* C26: a second evaluate call, on another universe than the stored
\* mapping has, returned the stored mapping
C26_SecondCallReturnedStored ==
    /\ returned.called
    /\ returned.calls = 0
    /\ returned.universe # {}
    /\ returned.universe # DOMAIN subject.expr.meaning
    /\ returned.value = subject.expr.meaning


(* ---------------------------------------------------------------------- *)
(* C27: generate has no termination guarantee                             *)
(* ---------------------------------------------------------------------- *)

RECURSIVE ReachFrom(_, _)
\* the types generate can be called on from the types in seen
ReachFrom(rs, seen) ==
    LET more == UNION {UNION {Range(r.rhs) : r \in Range(RulesOf(rs, t))} :
                         t \in seen}
    IN  IF more \subseteq seen THEN seen ELSE ReachFrom(rs, seen \cup more)

\* no type reachable from lhs has a terminal rule
NoTerminalReachable(lhs) ==
    \A t \in ReachFrom(rules, {lhs}) :
        \A r \in Range(RulesOf(rules, t)) : ~is_terminal(r)

\* the call generate(asked) of this state can still be recursing below the
\* depth it was followed to
CanRecurseOn ==
    \E out \in GenerateOutcomes(rules, asked, MaxGenDepth) :
        out.raised = "unfinished"

\* C27: on a grammar in which no type reachable from lhs has a terminal
\* rule, generate(lhs) returns no tree, raises no error of the grammar
\* and has an execution that recurses beyond every depth; and a tree that
\* generate returns has terminal rules at all its leaves.
C27_NoTerminationGuarantee ==
    op = "generate_deep" =>
        /\ NoTerminalReachable(asked) =>
              /\ subject.none
              /\ raised \in {"unfinished", "IndexError"}
              /\ CanRecurseOn
        /\ ~subject.none => ~HasChildless(subject.expr)

\* C27 on grammars without a rule of empty rhs and with rules for every
\* type reachable from lhs
C27_WithoutEmptyRhs ==
    (op = "generate_deep" /\ ~HasEmptyRhs
        /\ \A t \in ReachFrom(rules, {asked}) : RulesOf(rules, t) # <<>>) =>
        /\ NoTerminalReachable(asked) =>
              /\ subject.none
              /\ raised = "unfinished"
              /\ CanRecurseOn
        /\ ~subject.none => ~HasChildless(subject.expr)

\* C27: generate was called on a grammar without a reachable terminal rule
\* and is recursing below the depth followed
C27_Recursing ==
    /\ op = "generate_deep"
    /\ ~HasEmptyRhs
    /\ NoTerminalReachable(asked)
    /\ raised = "unfinished"
    /\ RulesOf(rules, asked) # <<>>

\* C27: generate returned a tree although no reachable type has a
\* terminal rule
C27_ReturnedWithoutTerminal ==
    /\ op = "generate_deep"
    /\ NoTerminalReachable(asked)
    /\ ~subject.none


(* ---------------------------------------------------------------------- *)
(* C28: the uniqueness store grows, and the first of equals stays         *)
(* ---------------------------------------------------------------------- *)

\* compare puts neither of the two expressions before the other
Tie(e1, e2) ==
    ~Compare(gen.ua.cmp, e1, e2) /\ ~Compare(gen.ua.cmp, e2, e1)

\* the gate of history entry g removed no entry of the store
NothingRemoved(g) ==
    \A l \in DOMAIN g.ud :
        l \in DOMAIN g.ud2 /\ DOMAIN g.ud[l] \subseteq DOMAIN g.ud2[l]

\* an entry the gate of g changed is the entry of the type and key of its
\* candidate, it is now the candidate, and compare put the candidate
\* before the entry
ReplacedByBetter(g) ==
    \A l \in DOMAIN g.ud : \A k \in DOMAIN g.ud[l] :
        g.ud2[l][k] # g.ud[l][k] =>
            /\ l = g.lhs
            /\ k = Key(gen.ua.key, g.expr)
            /\ g.ud2[l][k] = g.expr
            /\ Compare(gen.ua.cmp, g.expr, g.ud[l][k])

\* the candidate of g met an entry of its key that compare treats as its
\* equal
MetEqual(g) ==
    LET k == Key(gen.ua.key, g.expr)
        d == StoreOf(g.ud, g.lhs)
    IN  k \in DOMAIN d /\ d[k] # g.expr /\ Tie(g.expr, d[k])

\* C28: during an enumerate run under a uniqueness pass no gate removes an
\* entry of the store; an entry is replaced only by a candidate of its
\* type and key that compare puts before it; a candidate that compare
\* treats as the equal of the entry of its key leaves the entry in place
\* (the first one enumerated stays); and the store changes at the gates
\* only.
C28_StoreMonotone ==
    (op = "enumerate" /\ gen.ua.on) =>
        LET log == last_pull.gated
        IN  /\ \A i \in DOMAIN log :
                 /\ NothingRemoved(log[i])
                 /\ ReplacedByBetter(log[i])
                 /\ MetEqual(log[i]) => log[i].ud2 = log[i].ud
                 /\ i > 1 => log[i].ud = log[i - 1].ud2
            /\ log # <<>> => unique_dict = log[Len(log)].ud2

\* C28, from one next() to the following: the store the first gate finds
\* is the store the last next() left
C28_StoreOnlyGated ==
    [][(op' = "enumerate" /\ gen.ua.on) =>
          IF last_pull'.gated = <<>> THEN unique_dict' = unique_dict
          ELSE last_pull'.gated[1].ud = unique_dict]_vars

\* C28 witness: one next() built a candidate that met an equal entry of
\* its key, and a candidate that replaced the entry of its key
C28_Witness ==
    /\ op = "enumerate"
    /\ gen.ua.on
    /\ \E i, j \in DOMAIN last_pull.gated :
          LET g == last_pull.gated[i]
              h == last_pull.gated[j]
          IN  /\ MetEqual(g)
              /\ h.ud2 # h.ud
              /\ Key(gen.ua.key, h.expr) \in DOMAIN StoreOf(h.ud, h.lhs)


(* ---------------------------------------------------------------------- *)
(* C29: a failed add_rule                                                 *)
(* ---------------------------------------------------------------------- *)

\* the step is an add_rule call that raised
AddRuleFailed ==
    /\ op' = "build"
    /\ n_calls' = n_calls + 1
    /\ raised' = "ValueError"

RECURSIVE UsesRegistered(_)
\* every node of e is made from the rule the name table holds for its name
UsesRegistered(e) ==
    /\ e.rule_name \in DOMAIN rules_by_name
    /\ rules_by_name[e.rule_name].func = e.func
    /\ rules_by_name[e.rule_name].rhs_none = e.children_none
    /\ \A i \in DOMAIN e.children : UsesRegistered(e.children[i])

\* C29: an add_rule call that fails leaves the per-type rule lists, the
\* name table and the start symbol as they were, and the expressions that
\* generate returns and enumerate yields are made of registered rules
\* only.
C29_FailedAddChangesNothing ==
    /\ [][AddRuleFailed => UNCHANGED <<rules, rules_by_name, start>>]_vars
    /\ [](/\ \A i \in DOMAIN yielded : UsesRegistered(yielded[i].expr)
          /\ (op = "generate" /\ ~subject.none)
                => UsesRegistered(subject.expr))

\* C29 for the name table and the start symbol alone
C29_TableAndStartKept ==
    [][AddRuleFailed => UNCHANGED <<rules_by_name, start>>]_vars

\* C29: enumerate has yielded an expression made from a rule that add_rule
\* rejected
C29_RejectedRuleEnumerated ==
    /\ op = "enumerate"
    /\ \E i \in DOMAIN yielded : ~UsesRegistered(yielded[i].expr)

\* C29: generate has returned an expression made from a rule that add_rule
\* rejected
C29_RejectedRuleGenerated ==
    /\ op = "generate"
    /\ ~subject.none
    /\ ~UsesRegistered(subject.expr)


(* ---------------------------------------------------------------------- *)
(* C30: term_expression is the string of the node                         *)
(* ---------------------------------------------------------------------- *)

RECURSIVE TermIsStr(_)
\* at every node of e the term_expression field is str(node)
TermIsStr(e) ==
    /\ e.term_expression = Str(e)
    /\ \A i \in DOMAIN e.children : TermIsStr(e.children[i])

\* C30: at every node of every expression that parse, generate or
\* enumerate returned, term_expression is str(node), and to_dict writes
\* that string.
C30_TermExpressionIsStr ==
    \A e \in Produced :
        /\ TermIsStr(e)
        /\ to_dict(e).term_expression = Str(e)

\* C30 for the expressions of generate and enumerate
C30_GeneratedAndEnumerated ==
    /\ (op \in {"generate", "evaluate"} /\ ~subject.none)
          => TermIsStr(subject.expr)
    /\ \A i \in DOMAIN yielded : TermIsStr(yielded[i].expr)

\* C30: parse returned a tree with children whose term_expression is the
\* string the node had when it was made, without them
C30_StaleAfterParse ==
    /\ op = "parse"
    /\ parsed.kind = "tree"
    /\ parsed.tree.children # <<>>
    /\ parsed.tree.term_expression = parsed.tree.rule_name \o <<"(", ")">>
    /\ to_dict(parsed.tree).term_expression # Str(parsed.tree)

\* C30: generate returned a tree with children, and term_expression is
\* its string
C30_GeneratedWithChildren ==
    /\ op = "generate"
    /\ ~subject.none
    /\ subject.expr.children # <<>>
    /\ TermIsStr(subject.expr)

=============================================================================
